---------------------------- MODULE Spec2Model ----------------------------
(***************************************************************************)
(* Model of juce::Displays (modules/juce_gui_basics/desktop/               *)
(* juce_Displays.cpp): the conversion of the display records from raw      *)
(* physical rectangles to one logical coordinate space                     *)
(* (Displays::updateToLogical and the recursive processDisplay), then the  *)
(* directory built on it: refresh, the lookups by point and by rectangle,  *)
(* the conversions between physical and logical pixels and the deprecated  *)
(* lookups.                                                                *)
(*                                                                         *)
(* Numbers.  Every coordinate is kept as an integer number of 1/Den pixel, *)
(* Den being the least common multiple of the scale factors in use.  The   *)
(* code divides raw (whole pixel) quantities by a scale factor and adds or *)
(* subtracts the quotients, so with whole-pixel raw rectangles and scale   *)
(* factors from ScaleSet every intermediate value is a whole number of     *)
(* 1/Den pixel, and -- the scale factors being powers of two and the       *)
(* magnitudes small -- it is also exactly representable in float and in    *)
(* double: toFloat() and toDouble() change none of these values.  A scale  *)
(* factor is kept in the same unit (Fixed), so that the conversions can be *)
(* tried with the factors 0.5 and 1.5 as well.                             *)
(*                                                                         *)
(* The last part models JSONUtils::getPointer and JSONUtils::setPointer    *)
(* (modules/juce_core/json/juce_JSONUtils.cpp) on a heap of                *)
(* reference-counted objects and arrays.                                   *)
(***************************************************************************)
EXTENDS Integers, Sequences, FiniteSets, TLC

\* The largest number of displays the platform reports.
MaxDisplays == 3

\* The scale factors a display may report.
ScaleSet == {1, 2}

\* Raw top-left coordinates (whole pixels) of the enumerated displays.
Coords == {-2, 0, 2}

\* Raw width and height (whole pixels) of the enumerated displays.
Sizes == {2}

\* Height (whole pixels) of the OS-reserved strip at the top of a display.
TopInsets == {1}

\* Number of fixed-point units per pixel: the least common multiple of ScaleSet.
Den ==
    CHOOSE d \in 1..8 :
        /\ \A s \in ScaleSet : d % s = 0
        /\ \A e \in 1..(d - 1) : \E s \in ScaleSet : e % s # 0

\* A whole number of pixels in fixed-point units.
Px(n) == n * Den

\* A whole number as a double: Display::scale is a double like the coordinates
\* and is kept in the same fixed-point units.
Fixed(n) == n * Den

\* v / s and v * s for a fixed-point v and a fixed-point scale factor s.  In
\* updateToLogical the scale factors are whole numbers that divide Den and v is
\* a whole number of pixels, so the quotient is exact.
over(v, s) == (v * Den) \div s
times(v, s) == (v * s) \div Den

-----------------------------------------------------------------------------
(* Rectangle<ValueType> and Point<ValueType>                               *)

Rect(x, y, w, h) == [x |-> x, y |-> y, w |-> w, h |-> h]

getRight(r)  == r.x + r.w
getBottom(r) == r.y + r.h
getTopLeft(r) == [x |-> r.x, y |-> r.y]

\* Point::isOrigin
isOrigin(p) == p.x = 0 /\ p.y = 0

\* Rectangle / scale: every member divided by the scale factor.
RectDiv(r, s) == Rect(over(r.x, s), over(r.y, s), over(r.w, s), over(r.h, s))

\* Rectangle - Point and Rectangle + Point: a translation.
RectMinus(r, p) == Rect(r.x - p.x, r.y - p.y, r.w, r.h)
RectPlus(r, p)  == Rect(r.x + p.x, r.y + p.y, r.w, r.h)

\* Rectangle::setPosition
setPosition(r, x, y) == Rect(x, y, r.w, r.h)

\* Point::getDistanceFrom ({}): the distance of p from the origin.  The code
\* only compares distances with < ; the square root is strictly increasing,
\* so the model keeps the square of the distance.
getDistanceFrom(p) == p.x * p.x + p.y * p.y

\* approximatelyEqual: equality up to a tolerance far below one fixed-point
\* unit; on the whole numbers of units kept here it is equality.
approximatelyEqual(a, b) == a = b

-----------------------------------------------------------------------------
VARIABLES
    displays,        \* Displays::displays, the Array<Display>
    rawDisplays,     \* history: the records as the platform enumerated them
    displayNodes,    \* updateToLogical's local Array<DisplayNode>
    root,            \* updateToLogical's local root (index into displayNodes, 0 = nullptr)
    stack,           \* the active processDisplay calls, innermost last
    commitIdx,       \* position of updateToLogical's final loop
    invoked,         \* history: number of processDisplay calls per node
    jassertFailed,   \* a jassert / jassertfalse of the pass was hit
    pc,              \* "enumerate", "traverse", "commit", "done"
    peerCalls,       \* per ComponentPeer: handleScreenSizeChange calls of the last refresh
    call,            \* the last operation called: arguments and result
    heap,            \* the DynamicObjects and Array<var>s that vars point to
    document,        \* the var a caller of JSONUtils holds and passes as v
    owner,           \* DropShadower::owner (0 = nullptr)
    desktop,         \* what updateShadows reads of the owner and of the platform
    virtualDesktopWatcher, \* DropShadower::virtualDesktopWatcher != nullptr
    shadowWindows,   \* DropShadower::shadowWindows
    reentrant,       \* DropShadower::reentrant
    activeCalls,     \* the calls of updateShadows and ~DropShadower in progress, innermost last
    lifetime,        \* "alive", "destroyed", "useAfterFree"
    arrivals,        \* history: parity of the number of updateShadows calls made
    parentComponent, \* Component::parentComponent of every component (0 = nullptr)
    generation,      \* per address: how many components have been deleted there
    liveComponents,  \* the addresses that hold a component
    componentListeners, \* the components ParentVisibilityChangedListener is registered on
    observedComponents, \* ParentVisibilityChangedListener::observedComponents
    listenerState,   \* "none", "constructed", "destroyed"
    lastUpdate       \* history: the components the last updateParentHierarchy added to / removed from

vars == <<displays, rawDisplays, displayNodes, root, stack, commitIdx,
          invoked, jassertFailed, pc, peerCalls, call, heap, document,
          owner, desktop, virtualDesktopWatcher, shadowWindows, reentrant,
          activeCalls, lifetime, arrivals,
          parentComponent, generation, liveComponents, componentListeners,
          observedComponents, listenerState, lastUpdate>>

\* The state of one pass of updateToLogical.
passVars == <<displayNodes, root, stack, commitIdx, invoked, jassertFailed, pc>>

\* The state outside the pass: the peers and the last call on the directory.
callerVars == <<peerCalls, call>>

\* The state of a caller of JSONUtils.
jsonVars == <<heap, document>>

\* No operation has been called on the directory yet.
NoCall == [op |-> "none"]

\* A var: void, an int, a String (a sequence of characters), or a pointer to
\* a reference-counted DynamicObject or Array<var> (its index in heap).
Void         == [t |-> "void", n |-> 0, s |-> <<>>]
IntVar(n)    == [t |-> "int", n |-> n, s |-> <<>>]
StringVar(s) == [t |-> "string", n |-> 0, s |-> s]
Ref(a)       == [t |-> "ref", n |-> a, s |-> <<>>]

\* No JSON document is held.
NoJson == heap = <<>> /\ document = Void

\* nullptr for a DisplayNode*, a Component*.
nullptr == 0

\* The state of a DropShadower and of the component it follows.
shadowerVars == <<owner, desktop, virtualDesktopWatcher, shadowWindows, reentrant,
                  activeCalls, lifetime, arrivals>>

\* The state of a ParentVisibilityChangedListener and of the component tree.
listenerVars == <<parentComponent, generation, liveComponents, componentListeners,
                  observedComponents, listenerState, lastUpdate>>

guiVars == <<shadowerVars, listenerVars>>

\* No DropShadower exists.
NoShadower ==
    /\ owner = nullptr
    /\ desktop = <<>>
    /\ virtualDesktopWatcher = FALSE
    /\ shadowWindows = <<>>
    /\ reentrant = FALSE
    /\ activeCalls = <<>>
    /\ lifetime = "alive"
    /\ arrivals = 0

\* No ParentVisibilityChangedListener and no component exists.
NoListener ==
    /\ parentComponent = <<>>
    /\ generation = <<>>
    /\ liveComponents = {}
    /\ componentListeners = {}
    /\ observedComponents = {}
    /\ listenerState = "none"
    /\ lastUpdate = <<>>

NoGui == NoShadower /\ NoListener

\* A default-constructed Rectangle<double>.
EmptyRect == Rect(0, 0, 0, 0)

\* One record as the platform fills it in before updateToLogical: logicalBounds
\* holds the raw physical rectangle and userBounds the raw user area.
RawDisplay(x, y, w, h, s, inset) ==
    [ logicalBounds |-> Rect(Px(x), Px(y), Px(w), Px(h)),
      userBounds    |-> Rect(Px(x), Px(y + inset), Px(w), Px(h - inset)),
      scale         |-> Fixed(s) ]

\* The records the platform may report.
DisplayChoices ==
    { RawDisplay(x, y, w, h, s, t) :
        x \in Coords, y \in Coords, w \in Sizes, h \in Sizes,
        s \in ScaleSet, t \in TopInsets }

\* The example of the documentation: A = [0,0,1920,1080] at scale 1 and
\* B = [1920,0,1280,1024] at scale 2.
ExampleLayout ==
    << [ logicalBounds |-> Rect(Px(0), Px(0), Px(1920), Px(1080)),
         userBounds    |-> Rect(Px(0), Px(40), Px(1920), Px(1040)),
         scale         |-> Fixed(1) ],
       [ logicalBounds |-> Rect(Px(1920), Px(0), Px(1280), Px(1024)),
         userBounds    |-> Rect(Px(1920), Px(0), Px(1280), Px(1024)),
         scale         |-> Fixed(2) ] >>

Init ==
    /\ displays \in { <<>>, ExampleLayout }
    /\ rawDisplays = displays
    /\ displayNodes = <<>>
    /\ root = nullptr
    /\ stack = <<>>
    /\ commitIdx = 0
    /\ invoked = <<>>
    /\ jassertFailed = FALSE
    /\ pc = "enumerate"
    /\ peerCalls = <<>>
    /\ call = NoCall
    /\ NoJson
    /\ NoGui

\* The records at scale 1.  The control flow of the pass (root choice, touching
\* tests, recursion, final loop) reads the raw rectangles only, never a scale.
UnscaledChoices == { d \in DisplayChoices : d.scale = Fixed(1) }

\* The platform's findDisplays adds one record, one of choices, to the array.
findDisplaysAdds(choices) ==
    /\ pc = "enumerate"
    /\ Len(displays) < MaxDisplays
    /\ \E d \in choices :
          /\ displays' = Append(displays, d)
          /\ rawDisplays' = Append(rawDisplays, d)
    /\ UNCHANGED <<displayNodes, root, stack, commitIdx, invoked, jassertFailed, pc>>
    /\ UNCHANGED callerVars
    /\ UNCHANGED jsonVars
    /\ UNCHANGED guiVars

AddDisplay == findDisplaysAdds(DisplayChoices)

AddUnscaledDisplay == findDisplaysAdds(UnscaledChoices)


-----------------------------------------------------------------------------
(* Displays::updateToLogical, the single-display path                      *)

\* Mutant of UpdateToLogicalSingle: the user area is left in raw pixels.
UpdateToLogicalSingle_userUnscaled ==
    /\ pc = "enumerate"
    /\ Len(displays) = 1
    /\ displays' =
          << [ displays[1] EXCEPT
                 !.logicalBounds = RectDiv(displays[1].logicalBounds, displays[1].scale) ] >>
    /\ pc' = "done"
    /\ UNCHANGED <<rawDisplays, displayNodes, root, stack, commitIdx, invoked, jassertFailed>>
    /\ UNCHANGED callerVars
    /\ UNCHANGED jsonVars
    /\ UNCHANGED guiVars

\* Lines 319-327: one display is scaled in place, no graph is built.
UpdateToLogicalSingle ==
    /\ pc = "enumerate"
    /\ Len(displays) = 1
    /\ displays' =
          << [ displays[1] EXCEPT
                 !.logicalBounds = RectDiv(displays[1].logicalBounds, displays[1].scale),
                 !.userBounds    = RectDiv(displays[1].userBounds, displays[1].scale) ] >>
    /\ pc' = "done"
    /\ UNCHANGED <<rawDisplays, displayNodes, root, stack, commitIdx, invoked, jassertFailed>>
    /\ UNCHANGED callerVars
    /\ UNCHANGED jsonVars
    /\ UNCHANGED guiVars

-----------------------------------------------------------------------------
(* Displays::updateToLogical, building the nodes and choosing the root     *)

\* Lines 331-341: one node per display, isRoot set where the raw top-left is
\* the origin.
buildNodes(ds) ==
    [ i \in 1..Len(ds) |->
        [ display     |-> i,
          isRoot      |-> isOrigin(getTopLeft(ds[i].logicalBounds)),
          parent      |-> nullptr,
          logicalArea |-> EmptyRect ] ]

\* Lines 345-347: the first node flagged isRoot, nullptr (0) when there is none.
RECURSIVE firstRootNode(_, _)
firstRootNode(nodes, i) ==
    IF i > Len(nodes) THEN nullptr
    ELSE IF nodes[i].isRoot THEN i
    ELSE firstRootNode(nodes, i + 1)

\* Mutant of closerThan: <= instead of <, so the last of several nearest wins.
closerThan_orEqual(distance, retVal, minDistance) ==
    retVal = nullptr \/ distance <= minDistance

\* Lines 349-361: the loop keeping the node whose raw top-left is nearest the
\* origin.  retVal = nullptr stands for minDistance still being the largest float.
closerThan(distance, retVal, minDistance) ==
    retVal = nullptr \/ distance < minDistance

RECURSIVE nearestNode(_, _, _, _)
nearestNode(ds, i, retVal, minDistance) ==
    IF i > Len(ds) THEN retVal
    ELSE LET distance == getDistanceFrom(getTopLeft(ds[i].logicalBounds))
         IN  IF closerThan(distance, retVal, minDistance)
             THEN nearestNode(ds, i + 1, i, distance)
             ELSE nearestNode(ds, i + 1, retVal, minDistance)

\* Lines 343-367: the lambda choosing the root.
findRoot(nodes, ds) ==
    IF firstRootNode(nodes, 1) # nullptr
    THEN firstRootNode(nodes, 1)
    ELSE nearestNode(ds, 1, nullptr, 0)

\* Lines 363-364: the node chosen by distance is flagged isRoot.
markRoot(nodes, r) ==
    IF r # nullptr THEN [nodes EXCEPT ![r].isRoot = TRUE] ELSE nodes

\* Lines 329-370: the nodes are built and the root is chosen; processDisplay
\* (root) is the next step.  (The platform reports at least one display: the
\* pass over an empty array, in which root is nullptr, is not modelled.)
StartUpdateToLogical ==
    /\ pc = "enumerate"
    /\ Len(displays) > 1
    /\ LET nodes == buildNodes(displays)
           r     == findRoot(nodes, displays)
       IN  /\ displayNodes' = markRoot(nodes, r)
           /\ root' = r
           /\ jassertFailed' = (r = nullptr)
    /\ stack' = <<>>
    /\ invoked' = [i \in 1..Len(displays) |-> 0]
    /\ pc' = "traverse"
    /\ UNCHANGED <<displays, rawDisplays, commitIdx>>
    /\ UNCHANGED callerVars
    /\ UNCHANGED jsonVars
    /\ UNCHANGED guiVars

-----------------------------------------------------------------------------
(* processDisplay                                                          *)

\* Lines 263-267: the four side tests, in the order of the code; "none" is
\* the jassertfalse branch.
matchedSide(physicalArea, physicalParentArea) ==
    IF approximatelyEqual(getRight(physicalArea), physicalParentArea.x) THEN "left"
    ELSE IF approximatelyEqual(physicalArea.x, getRight(physicalParentArea)) THEN "right"
    ELSE IF approximatelyEqual(getBottom(physicalArea), physicalParentArea.y) THEN "top"
    ELSE IF approximatelyEqual(physicalArea.y, getBottom(physicalParentArea)) THEN "bottom"
    ELSE "none"

\* Mutant of placedArea: the cross-axis coordinate is divided by the node's own
\* scale instead of the parent's.
placedArea_ownScale(physicalArea, scale, physicalParentArea, logicalParentArea, parentScale) ==
    LET logicalWidth  == over(physicalArea.w, scale)
        logicalHeight == over(physicalArea.h, scale)
        logicalArea   == Rect(0, 0, logicalWidth, logicalHeight)
        side          == matchedSide(physicalArea, physicalParentArea)
    IN  CASE side = "left" ->
               setPosition(logicalArea, logicalParentArea.x - logicalWidth,
                                        over(physicalArea.y, scale))
          [] side = "right" ->
               setPosition(logicalArea, getRight(logicalParentArea),
                                        over(physicalArea.y, scale))
          [] side = "top" ->
               setPosition(logicalArea, over(physicalArea.x, scale),
                                        logicalParentArea.y - logicalHeight)
          [] side = "bottom" ->
               setPosition(logicalArea, over(physicalArea.x, scale),
                                        getBottom(logicalParentArea))
          [] OTHER -> logicalArea

\* Mutant of placedArea: every display is scaled about the origin by its own
\* scale factor, whatever its parent.
placedArea_scaledAlone(physicalArea, scale, physicalParentArea, logicalParentArea, parentScale) ==
    RectDiv(physicalArea, scale)

\* Lines 254-269: the logical area of a node that is not flagged isRoot.
placedArea(physicalArea, scale, physicalParentArea, logicalParentArea, parentScale) ==
    LET logicalWidth  == over(physicalArea.w, scale)
        logicalHeight == over(physicalArea.h, scale)
        logicalArea   == Rect(0, 0, logicalWidth, logicalHeight)
        side          == matchedSide(physicalArea, physicalParentArea)
    IN  CASE side = "left" ->
               setPosition(logicalArea, logicalParentArea.x - logicalWidth,
                                        over(physicalArea.y, parentScale))
          [] side = "right" ->
               setPosition(logicalArea, getRight(logicalParentArea),
                                        over(physicalArea.y, parentScale))
          [] side = "top" ->
               setPosition(logicalArea, over(physicalArea.x, parentScale),
                                        logicalParentArea.y - logicalHeight)
          [] side = "bottom" ->
               setPosition(logicalArea, over(physicalArea.x, parentScale),
                                        getBottom(logicalParentArea))
          [] OTHER -> logicalArea

\* Mutant of rootArea: the root is moved to the origin.
rootArea_atOrigin(physicalArea, scale) ==
    Rect(0, 0, over(physicalArea.w, scale), over(physicalArea.h, scale))

\* Lines 273-275: the logical area of a node flagged isRoot.
rootArea(physicalArea, scale) == RectDiv(physicalArea, scale)

\* Lines 249-276: the node after the first half of processDisplay.
resolvedNode(cur, nodes, ds) ==
    LET node         == nodes[cur]
        physicalArea == ds[node.display].logicalBounds
        scale        == ds[node.display].scale
    IN  IF ~ node.isRoot
        THEN LET parentNode == nodes[node.parent]
             IN  [ node EXCEPT !.logicalArea =
                     placedArea(physicalArea, scale,
                                ds[parentNode.display].logicalBounds,
                                parentNode.logicalArea,
                                ds[parentNode.display].scale) ]
        ELSE [ node EXCEPT !.logicalArea = rootArea(physicalArea, scale),
                           !.parent = cur ]

\* Mutant of isTouching: the test for a display above the current one is missing.
isTouching_noneAbove(otherPhysicalArea, physicalArea) ==
    \/ approximatelyEqual(otherPhysicalArea.x, getRight(physicalArea))
    \/ approximatelyEqual(getRight(otherPhysicalArea), physicalArea.x)
    \/ approximatelyEqual(otherPhysicalArea.y, getBottom(physicalArea))

\* Mutant of isTouching: displays whose left edges are on one line count as
\* touching too.
isTouching_orLeftAligned(otherPhysicalArea, physicalArea) ==
    \/ approximatelyEqual(otherPhysicalArea.x, getRight(physicalArea))
    \/ approximatelyEqual(getRight(otherPhysicalArea), physicalArea.x)
    \/ approximatelyEqual(otherPhysicalArea.y, getBottom(physicalArea))
    \/ approximatelyEqual(getBottom(otherPhysicalArea), physicalArea.y)
    \/ approximatelyEqual(otherPhysicalArea.x, physicalArea.x)

\* Lines 289-290: the test "the displays are touching on any side".
isTouching(otherPhysicalArea, physicalArea) ==
    \/ approximatelyEqual(otherPhysicalArea.x, getRight(physicalArea))
    \/ approximatelyEqual(getRight(otherPhysicalArea), physicalArea.x)
    \/ approximatelyEqual(otherPhysicalArea.y, getBottom(physicalArea))
    \/ approximatelyEqual(getBottom(otherPhysicalArea), physicalArea.y)

\* Mutant of isCandidate: nodes that already have a parent are not skipped.
isCandidate_always(node) == TRUE

\* Line 283: a node that already has a parent is not a candidate.
isCandidate(node) == node.parent = nullptr

\* Lines 279-295: the children of cur, in the order of allNodes.
findChildren(cur, nodes, ds) ==
    LET physicalArea == ds[nodes[cur].display].logicalBounds
    IN  SelectSeq([i \in 1..Len(nodes) |-> i],
                  LAMBDA i : /\ isCandidate(nodes[i])
                             /\ isTouching(ds[nodes[i].display].logicalBounds, physicalArea))

\* Line 292: every child found gets cur as its parent.
adopt(nodes, children, cur) ==
    [ i \in 1..Len(nodes) |->
        IF \E k \in 1..Len(children) : children[k] = i
        THEN [nodes[i] EXCEPT !.parent = cur]
        ELSE nodes[i] ]

\* The node whose processDisplay call is next: the root when no call is
\* active, else the next child of the innermost call (nullptr when that call
\* has run out of children).
nextCallee ==
    IF stack = <<>> THEN root
    ELSE LET top == stack[Len(stack)]
         IN  IF top.next <= Len(top.children) THEN top.children[top.next] ELSE nullptr

\* The caller's loop over its children (lines 298-299) moves on by one.
advanceCaller(stk) ==
    IF stk = <<>> THEN stk
    ELSE [stk EXCEPT ![Len(stk)].next = @ + 1]

\* Mutant of processDisplay: the logical area is written to the record at once.
processDisplay_commitsEarly(cur) ==
    LET node1    == resolvedNode(cur, displayNodes, displays)
        nodes1   == [displayNodes EXCEPT ![cur] = node1]
        children == findChildren(cur, nodes1, displays)
    IN  /\ displayNodes' = adopt(nodes1, children, cur)
        /\ stack' = Append(advanceCaller(stack),
                           [node |-> cur, children |-> children, next |-> 1])
        /\ jassertFailed' = jassertFailed
        /\ displays' = [displays EXCEPT ![node1.display].logicalBounds = node1.logicalArea]

\* Lines 247-295: one call of processDisplay up to its loop over the
\* children: the logical area of cur is computed, the children are found and
\* adopted.  The display records are only read.
processDisplay(cur) ==
    LET node1    == resolvedNode(cur, displayNodes, displays)
        nodes1   == [displayNodes EXCEPT ![cur] = node1]
        children == findChildren(cur, nodes1, displays)
        side     == matchedSide(displays[node1.display].logicalBounds,
                                displays[nodes1[displayNodes[cur].parent].display].logicalBounds)
    IN  /\ displayNodes' = adopt(nodes1, children, cur)
        /\ stack' = Append(advanceCaller(stack),
                           [node |-> cur, children |-> children, next |-> 1])
        /\ jassertFailed' =
              (jassertFailed \/ (~ displayNodes[cur].isRoot /\ side = "none"))
        /\ UNCHANGED displays

ProcessDisplayCall ==
    /\ pc = "traverse"
    /\ nextCallee # nullptr
    /\ processDisplay(nextCallee)
    /\ invoked' = [invoked EXCEPT ![nextCallee] = @ + 1]
    /\ UNCHANGED <<rawDisplays, root, commitIdx, pc>>
    /\ UNCHANGED callerVars
    /\ UNCHANGED jsonVars
    /\ UNCHANGED guiVars

\* Line 300: a call whose children are all processed returns; when the call
\* on the root returns, updateToLogical goes on to its final loop.
ProcessDisplayReturn ==
    /\ pc = "traverse"
    /\ stack # <<>>
    /\ nextCallee = nullptr
    /\ stack' = SubSeq(stack, 1, Len(stack) - 1)
    /\ IF Len(stack) = 1
       THEN pc' = "commit" /\ commitIdx' = 1
       ELSE UNCHANGED <<pc, commitIdx>>
    /\ UNCHANGED <<displays, rawDisplays, displayNodes, root, invoked, jassertFailed>>
    /\ UNCHANGED callerVars
    /\ UNCHANGED jsonVars
    /\ UNCHANGED guiVars

-----------------------------------------------------------------------------
(* Displays::updateToLogical, the final loop                               *)

\* Lines 380-384: the record of one node after its iteration of the loop.
committedDisplay(node, d) ==
    LET unscaledUserArea == RectMinus(d.userBounds, getTopLeft(d.logicalBounds))
        relativeUserArea == RectDiv(unscaledUserArea, d.scale)
    IN  [ d EXCEPT !.logicalBounds = node.logicalArea,
                   !.userBounds = RectPlus(relativeUserArea, getTopLeft(node.logicalArea)) ]

\* Lines 375-385: one iteration of the loop over displayNodes.
CommitNode ==
    /\ pc = "commit"
    /\ commitIdx <= Len(displayNodes)
    /\ LET node == displayNodes[commitIdx]
       IN  /\ jassertFailed' = (jassertFailed \/ node.parent = nullptr)
           /\ displays' = [displays EXCEPT ![node.display] =
                              committedDisplay(node, displays[node.display])]
    /\ commitIdx' = commitIdx + 1
    /\ pc' = IF commitIdx = Len(displayNodes) THEN "done" ELSE "commit"
    /\ UNCHANGED <<rawDisplays, displayNodes, root, stack, invoked>>
    /\ UNCHANGED callerVars
    /\ UNCHANGED jsonVars
    /\ UNCHANGED guiVars

-----------------------------------------------------------------------------
Next ==
    \/ AddDisplay
    \/ UpdateToLogicalSingle
    \/ StartUpdateToLogical
    \/ ProcessDisplayCall
    \/ ProcessDisplayReturn
    \/ CommitNode

Spec == Init /\ [][Next]_vars

\* The pass over layouts of displays at scale 1, and of the example.
NextUnscaled ==
    \/ AddUnscaledDisplay
    \/ UpdateToLogicalSingle
    \/ StartUpdateToLogical
    \/ ProcessDisplayCall
    \/ ProcessDisplayReturn
    \/ CommitNode

\* findDisplays and updateToLogical are one synchronous call on the message
\* thread: every step that can be taken is taken.
FairSpec == Init /\ [][NextUnscaled]_vars /\ WF_vars(NextUnscaled)

-----------------------------------------------------------------------------
(* The Display record with all its fields; init and refresh                *)
(*                                                                         *)
(* Rectangle<int> and Point<int> members are whole pixels, kept as plain   *)
(* integers; Rectangle<float> and Point<float> members are kept in         *)
(* fixed-point units as above.                                             *)

\* The largest number of live ComponentPeers.
MaxPeers == 2

\* roundToInt: the nearest integer, a value halfway between two integers going
\* to the even one.
roundToInt(v) ==
    LET q == v \div Den
        r == v % Den
    IN  IF 2 * r < Den THEN q
        ELSE IF 2 * r > Den THEN q + 1
        ELSE IF q % 2 = 0 THEN q ELSE q + 1

\* Rectangle<float>::toNearestInt: x, y, width and height rounded one by one.
toNearestInt(r) == Rect(roundToInt(r.x), roundToInt(r.y), roundToInt(r.w), roundToInt(r.h))

\* Rectangle<int>::toFloat and Point<int>::toFloat.
toFloat(r) == Rect(Px(r.x), Px(r.y), Px(r.w), Px(r.h))
pointToFloat(p) == [x |-> Px(p.x), y |-> Px(p.y)]

\* A BorderSize<int> with nothing on any side.
NoInsets == [top |-> 0, left |-> 0, bottom |-> 0, right |-> 0]

\* One record as the platform fills it in: the raw rectangles of RawDisplay,
\* the physical bounds in whole pixels, the primary flag, and the fields that
\* updateDeprecatedFields sets still at their defaults.
PlatformDisplay(x, y, w, h, s, inset, main) ==
    RawDisplay(x, y, w, h, s, inset) @@
    [ physicalBounds  |-> Rect(x, y, w, h),
      isMain          |-> main,
      dpi             |-> Fixed(96 * s),
      keyboardInsets  |-> NoInsets,
      safeAreaInsets  |-> NoInsets,
      topLeftPhysical |-> [x |-> 0, y |-> 0],
      totalArea       |-> EmptyRect,
      userArea        |-> EmptyRect ]

\* Every array of at most MaxDisplays records out of choices.
RECURSIVE SeqsUpTo(_, _)
SeqsUpTo(choices, n) ==
    IF n = 0 THEN { <<>> }
    ELSE LET shorter == SeqsUpTo(choices, n - 1)
         IN  shorter \cup { Append(q, d) : q \in { t \in shorter : Len(t) = n - 1 }, d \in choices }

Layouts(choices) == SeqsUpTo(choices, MaxDisplays)

\* Lines 247-300 as a function: the nodes after processDisplay (cur, allNodes)
\* has returned, the calls on the children included.
RECURSIVE processDisplayRec(_, _, _)
RECURSIVE processChildren(_, _, _, _)
processDisplayRec(cur, nodes, ds) ==
    LET node1    == resolvedNode(cur, nodes, ds)
        nodes1   == [nodes EXCEPT ![cur] = node1]
        children == findChildren(cur, nodes1, ds)
    IN  processChildren(children, 1, adopt(nodes1, children, cur), ds)

\* Lines 298-299: the loop over the children.
processChildren(children, k, nodes, ds) ==
    IF k > Len(children) THEN nodes
    ELSE processChildren(children, k + 1, processDisplayRec(children[k], nodes, ds), ds)

\* Lines 317-386 as a function of the array (of one record or more).
updateToLogical(ds) ==
    IF Len(ds) = 1
    THEN << [ ds[1] EXCEPT
                !.logicalBounds = RectDiv(ds[1].logicalBounds, ds[1].scale),
                !.userBounds    = RectDiv(ds[1].userBounds, ds[1].scale) ] >>
    ELSE LET nodes0 == buildNodes(ds)
             r      == findRoot(nodes0, ds)
             nodes  == processDisplayRec(r, markRoot(nodes0, r), ds)
         IN  [ i \in 1..Len(ds) |-> committedDisplay(nodes[i], ds[nodes[i].display]) ]

\* Lines 302-312.
updateDeprecatedFields(ds) ==
    [ i \in 1..Len(ds) |->
        [ ds[i] EXCEPT !.topLeftPhysical = getTopLeft(ds[i].physicalBounds),
                       !.totalArea       = toNearestInt(ds[i].logicalBounds),
                       !.userArea        = toNearestInt(ds[i].userBounds) ] ]

\* The platform's findDisplays: the enumerated records, converted by
\* updateToLogical when there is at least one.
findDisplays(layout) ==
    IF layout = <<>> THEN <<>> ELSE updateToLogical(layout)

\* Lines 43-47.
init(layout) == updateDeprecatedFields(findDisplays(layout))

\* Mutant of tie: the primary flag is left out of the comparison.
tie_withoutIsMain(d) ==
    << d.dpi, d.keyboardInsets, d.safeAreaInsets, d.scale, d.topLeftPhysical,
       d.totalArea, d.userArea, d.logicalBounds, d.userBounds, d.physicalBounds >>

\* Lines 197-212: the fields operator== compares.
tie(d) ==
    << d.dpi, d.isMain, d.keyboardInsets, d.safeAreaInsets, d.scale, d.topLeftPhysical,
       d.totalArea, d.userArea, d.logicalBounds, d.userBounds, d.physicalBounds >>

\* Lines 214-217: operator== on two records.
displayEquals(d1, d2) == tie(d1) = tie(d2)

\* Line 189: oldDisplays != displays, Array's comparison: the sizes differ or
\* the elements at some index do.
arraysDiffer(a, b) ==
    \/ Len(a) # Len(b)
    \/ \E i \in 1..Len(a) : ~ displayEquals(a[i], b[i])

\* Lines 191-193: for (i = getNumPeers(); --i >= 0;) getPeer (i)->handleScreenSizeChange().
\* Peer i of the code is element i + 1 of calls.
RECURSIVE notifyPeers(_, _)
notifyPeers(calls, i) ==
    LET j == i - 1
    IN  IF j >= 0 THEN notifyPeers([calls EXCEPT ![j + 1] = @ + 1], j) ELSE calls

\* Lines 182-195: refresh, the platform enumerating layout.  peerCalls counts
\* the calls made by this refresh.
refresh(layout) ==
    LET oldDisplays == displays
        newDisplays == init(layout)
        noCalls     == [i \in 1..Len(peerCalls) |-> 0]
    IN  /\ displays' = newDisplays
        /\ rawDisplays' = layout
        /\ peerCalls' = IF arraysDiffer(oldDisplays, newDisplays)
                        THEN notifyPeers(noCalls, Len(peerCalls))
                        ELSE noCalls
        /\ call' = [op |-> "refresh"]
        /\ UNCHANGED passVars
        /\ UNCHANGED jsonVars
        /\ UNCHANGED guiVars

\* The records the platform reports to the directory that is refreshed: a
\* display at the origin and one on its right, either of them the primary one.
RefreshChoices ==
    { PlatformDisplay(g[1], 0, 2, 2, g[2], 1, main) :
        g \in { <<0, 1>>, <<2, 2>> }, main \in BOOLEAN }

Refresh == \E layout \in Layouts(RefreshChoices) : refresh(layout)

\* Displays::Displays (lines 38-41) has run init on the layout the platform
\* reported; no pass of updateToLogical is in progress.
Constructed(choices) ==
    /\ \E layout \in Layouts(choices) :
          /\ rawDisplays = layout
          /\ displays = init(layout)
    /\ displayNodes = <<>>
    /\ root = nullptr
    /\ stack = <<>>
    /\ commitIdx = 0
    /\ invoked = <<>>
    /\ jassertFailed = FALSE
    /\ pc = "done"
    /\ call = NoCall

RefreshInit ==
    /\ Constructed(RefreshChoices)
    /\ peerCalls \in { [i \in 1..n |-> 0] : n \in 0..MaxPeers }
    /\ NoJson
    /\ NoGui

RefreshNext == Refresh

RefreshSpec == RefreshInit /\ [][RefreshNext]_vars

-----------------------------------------------------------------------------
(* The lookups: getDisplayForRect, getDisplayForPoint, getPrimaryDisplay   *)
(* and the deprecated getDisplayContaining, findDisplayForRect,            *)
(* findDisplayForPoint, getMainDisplay.  A const Display* is the index of  *)
(* the record in displays, nullptr being 0.                                *)

\* std::numeric_limits<int>::max().
IntMax == 2147483647

Max(a, b) == IF a >= b THEN a ELSE b
Min(a, b) == IF a <= b THEN a ELSE b

\* Rectangle<int>::getIntersection: the common part, an empty rectangle at the
\* origin when there is none.
getIntersection(a, b) ==
    LET nx == Max(a.x, b.x)
        ny == Max(a.y, b.y)
        nw == Min(getRight(a), getRight(b)) - nx
        nh == Min(getBottom(a), getBottom(b)) - ny
    IN  IF nw >= 0 /\ nh >= 0 THEN Rect(nx, ny, nw, nh) ELSE EmptyRect

\* Rectangle::contains (Point): the left and top edges belong to the
\* rectangle, the right and bottom edges do not.
contains(r, p) ==
    /\ p.x >= r.x /\ p.y >= r.y
    /\ p.x < r.x + r.w /\ p.y < r.y + r.h

\* Rectangle<int>::getCentre, in whole pixels.
getCentre(r) == [x |-> r.x + r.w \div 2, y |-> r.y + r.h \div 2]

\* The largest whole number whose square is at most n.
isqrt(n) == CHOOSE k \in 0..n : k * k <= n /\ (k + 1) * (k + 1) > n

\* Point<int>::getDistanceFrom: the distance as an int, the fraction dropped.
getDistanceFromInt(a, b) ==
    isqrt((a.x - b.x) * (a.x - b.x) + (a.y - b.y) * (a.y - b.y))

\* Lines 56 and 77: the bounds a lookup tests a display with.
lookupArea(display, isPhysical) ==
    IF isPhysical THEN display.physicalBounds ELSE toNearestInt(display.logicalBounds)

\* Mutant of atLeast: strictly larger, so the first of several largest wins.
atLeast_strict(area, maxArea) == area > maxArea

\* Line 60.
atLeast(area, maxArea) == area >= maxArea

\* Lines 54-65: the loop of getDisplayForRect from display i on.
RECURSIVE rectLoop(_, _, _, _, _, _)
rectLoop(ds, i, rect, isPhysical, maxArea, foundDisplay) ==
    IF i > Len(ds) THEN foundDisplay
    ELSE LET displayArea == getIntersection(lookupArea(ds[i], isPhysical), rect)
             area        == displayArea.w * displayArea.h
         IN  IF atLeast(area, maxArea)
             THEN rectLoop(ds, i + 1, rect, isPhysical, area, i)
             ELSE rectLoop(ds, i + 1, rect, isPhysical, maxArea, foundDisplay)

\* Lines 49-68.
getDisplayForRect(ds, rect, isPhysical) == rectLoop(ds, 1, rect, isPhysical, -1, nullptr)

\* Mutant of containsPoint: no display ever claims the point, the nearest
\* centre always decides.
containsPoint_never(displayArea, point) == FALSE

\* Line 79.
containsPoint(displayArea, point) == contains(displayArea, point)

\* Mutant of atMost: strictly smaller, so the first of several nearest wins.
atMost_strict(distance, minDistance) == distance < minDistance

\* Line 84.
atMost(distance, minDistance) == distance <= minDistance

\* Lines 75-89: the loop of getDisplayForPoint from display i on.
RECURSIVE pointLoop(_, _, _, _, _, _)
pointLoop(ds, i, point, isPhysical, minDistance, foundDisplay) ==
    IF i > Len(ds) THEN foundDisplay
    ELSE LET displayArea == lookupArea(ds[i], isPhysical)
             distance    == getDistanceFromInt(getCentre(displayArea), point)
         IN  IF containsPoint(displayArea, point) THEN i
             ELSE IF atMost(distance, minDistance)
             THEN pointLoop(ds, i + 1, point, isPhysical, distance, i)
             ELSE pointLoop(ds, i + 1, point, isPhysical, minDistance, foundDisplay)

\* Mutant of getDisplayForPoint: the smallest distance starts at zero.
getDisplayForPoint_fromZero(ds, point, isPhysical) ==
    pointLoop(ds, 1, point, isPhysical, 0, nullptr)

\* Lines 70-92.
getDisplayForPoint(ds, point, isPhysical) ==
    pointLoop(ds, 1, point, isPhysical, IntMax, nullptr)

\* Mutant of findMain: the last record flagged isMain.
findMain_last(ds, i) ==
    IF \E k \in 1..Len(ds) : ds[k].isMain
    THEN CHOOSE k \in 1..Len(ds) : ds[k].isMain /\ \A m \in (k + 1)..Len(ds) : ~ ds[m].isMain
    ELSE nullptr

\* Line 162: std::find_if from display i on; nullptr for displays.end().
RECURSIVE findMain(_, _)
findMain(ds, i) ==
    IF i > Len(ds) THEN nullptr
    ELSE IF ds[i].isMain THEN i
    ELSE findMain(ds, i + 1)

\* Lines 158-164.
getPrimaryDisplay(ds) == findMain(ds, 1)

\* A const Display&: a record of displays, the member emptyDisplay, or -- from
\* element 0 of an empty Array -- no record at all: the Array has no storage
\* (a null reference) or storage in which no record is constructed.
DisplayRef(i) == [to |-> "displays", index |-> i]
EmptyDisplayRef == [to |-> "emptyDisplay"]
InvalidRefs == { [to |-> "null"], [to |-> "unconstructed"] }

\* Rectangle<float>::getCentre().getDistanceFrom (position.toFloat()), as the
\* square of twice the distance: the code only compares these distances.
centreDistance(r, position) ==
    LET dx == 2 * (Px(position.x) - r.x) - r.w
        dy == 2 * (Px(position.y) - r.y) - r.h
    IN  dx * dx + dy * dy

\* Lines 405-420: the loop of getDisplayContaining from display i on.
\* bestDistance < 0 stands for the largest float.
RECURSIVE containingLoop(_, _, _, _, _)
containingLoop(ds, i, position, bestDistance, best) ==
    IF i > Len(ds) THEN best
    ELSE IF contains(ds[i].logicalBounds, pointToFloat(position)) THEN i
    ELSE LET distance == centreDistance(ds[i].logicalBounds, position)
         IN  IF bestDistance < 0 \/ distance < bestDistance
             THEN containingLoop(ds, i + 1, position, distance, i)
             ELSE containingLoop(ds, i + 1, position, bestDistance, best)

\* Lines 399-423: the references getDisplayContaining may return.  best starts
\* as &displays.getReference (0), which is no record when the array is empty.
getDisplayContaining(ds, position) ==
    IF ds = <<>> THEN InvalidRefs
    ELSE { DisplayRef(containingLoop(ds, 1, position, -1, 1)) }

\* Lines 427-430, 435-438, 443-446: *display, or emptyDisplay for nullptr.
derefOrEmpty(display) ==
    IF display # nullptr THEN DisplayRef(display) ELSE EmptyDisplayRef

\* Lines 425-431.
findDisplayForRect(ds, rect, isPhysical) == derefOrEmpty(getDisplayForRect(ds, rect, isPhysical))

\* Lines 433-439.
findDisplayForPoint(ds, point, isPhysical) == derefOrEmpty(getDisplayForPoint(ds, point, isPhysical))

\* Lines 441-447.
getMainDisplay(ds) == derefOrEmpty(getPrimaryDisplay(ds))

\* The records the platform reports to the directory that is queried: a
\* display at the origin at scale 2 and its right-hand neighbour (either of
\* them possibly primary), a neighbour one pixel lower whose logical top
\* falls between two pixels, and a wide display with a narrow neighbour.
ScreenChoices ==
    { PlatformDisplay(0, 0, 2, 2, 2, 1, main) : main \in BOOLEAN } \cup
    { PlatformDisplay(2, 0, 2, 2, 1, 1, main) : main \in BOOLEAN } \cup
    { PlatformDisplay(2, 1, 2, 2, 1, 1, FALSE),
      PlatformDisplay(0, 0, 6, 2, 1, 1, FALSE),
      PlatformDisplay(6, 0, 1, 2, 2, 1, FALSE) }

\* The points and rectangles (whole pixels) the lookups are called with.
QueryPoints == { [x |-> x, y |-> y] : x \in -1..6, y \in 0..3 }
QueryRects == { Rect(x, y, w, 2) : x \in {-1, 1, 3, 8}, y \in {0, 1}, w \in {0, 2, 4} }

\* A call that only reads the directory leaves nothing behind that a later
\* call could see, so one call per behaviour covers them all.
idle == call = NoCall

readsOnly ==
    /\ UNCHANGED <<displays, rawDisplays, peerCalls>>
    /\ UNCHANGED passVars
    /\ UNCHANGED jsonVars
    /\ UNCHANGED guiVars

GetDisplayForRect ==
    /\ idle
    /\ \E rect \in QueryRects, isPhysical \in BOOLEAN :
            call' = [ op |-> "getDisplayForRect", rect |-> rect, isPhysical |-> isPhysical,
                      result |-> getDisplayForRect(displays, rect, isPhysical) ]
    /\ readsOnly

GetDisplayForPoint ==
    /\ idle
    /\ \E point \in QueryPoints, isPhysical \in BOOLEAN :
            call' = [ op |-> "getDisplayForPoint", point |-> point, isPhysical |-> isPhysical,
                      result |-> getDisplayForPoint(displays, point, isPhysical) ]
    /\ readsOnly

GetPrimaryDisplay ==
    /\ idle
    /\ call' = [ op |-> "getPrimaryDisplay", result |-> getPrimaryDisplay(displays) ]
    /\ readsOnly

GetDisplayContaining ==
    /\ idle
    /\ \E position \in QueryPoints :
        \E ref \in getDisplayContaining(displays, position) :
            call' = [ op |-> "getDisplayContaining", point |-> position, result |-> ref ]
    /\ readsOnly

FindDisplayForRect ==
    /\ idle
    /\ \E rect \in QueryRects, isPhysical \in BOOLEAN :
            call' = [ op |-> "findDisplayForRect", rect |-> rect, isPhysical |-> isPhysical,
                      result |-> findDisplayForRect(displays, rect, isPhysical) ]
    /\ readsOnly

FindDisplayForPoint ==
    /\ idle
    /\ \E point \in QueryPoints, isPhysical \in BOOLEAN :
            call' = [ op |-> "findDisplayForPoint", point |-> point, isPhysical |-> isPhysical,
                      result |-> findDisplayForPoint(displays, point, isPhysical) ]
    /\ readsOnly

GetMainDisplay ==
    /\ idle
    /\ call' = [ op |-> "getMainDisplay", result |-> getMainDisplay(displays) ]
    /\ readsOnly

LookupInit ==
    /\ Constructed(ScreenChoices)
    /\ peerCalls = <<>>
    /\ NoJson
    /\ NoGui

LookupNext ==
    \/ GetDisplayForRect
    \/ GetDisplayForPoint
    \/ GetPrimaryDisplay
    \/ GetDisplayContaining
    \/ FindDisplayForRect
    \/ FindDisplayForPoint
    \/ GetMainDisplay

LookupSpec == LookupInit /\ [][LookupNext]_vars

-----------------------------------------------------------------------------
(* The conversions physicalToLogical and logicalToPhysical.  A point of    *)
(* the template's ValueType int is a pair of whole pixels, one of          *)
(* ValueType float a pair of fixed-point values.  The argument             *)
(* useScaleFactorOfDisplay is <<>> for nullptr and <<d>> for a pointer to  *)
(* the record d.                                                           *)

\* static_cast<int> of a floating value or quotient a / b (b > 0): the
\* fraction is dropped, towards zero.
truncate(a, b) == IF a >= 0 THEN a \div b ELSE - ((- a) \div b)

\* static_cast<ValueType> of a float (lines 137 and 152).
castFloat(type, v) == IF type = "int" THEN truncate(v, Den) ELSE v

\* static_cast<ValueType> of an int (lines 138 and 153).
castInt(type, n) == IF type = "int" THEN n ELSE Px(n)

\* Point<ValueType> / double and Point<ValueType> * double, one coordinate:
\* computed in double and cast back to ValueType.
coordOver(type, v, scale) ==
    IF type = "int" THEN truncate(v * Den, scale) ELSE over(v, scale)
coordTimes(type, v, scale) ==
    IF type = "int" THEN truncate(v * scale, Den) ELSE times(v, scale)

\* Point<ValueType>::roundToInt.
pointRoundToInt(type, point) ==
    IF type = "int" THEN point
    ELSE [x |-> roundToInt(point.x), y |-> roundToInt(point.y)]

\* The display a conversion uses: the one given, else the one the lookup
\* finds, else none.
displayToUse(useScaleFactorOfDisplay, ds, found) ==
    IF useScaleFactorOfDisplay # <<>> THEN useScaleFactorOfDisplay
    ELSE IF found # nullptr THEN << ds[found] >> ELSE <<>>

\* Lines 137 and 152.
logicalTopLeft(type, display) ==
    [ x |-> castFloat(type, display.logicalBounds.x),
      y |-> castFloat(type, display.logicalBounds.y) ]

\* Lines 138 and 153.
physicalTopLeft(type, display) ==
    [ x |-> castInt(type, display.physicalBounds.x),
      y |-> castInt(type, display.physicalBounds.y) ]

\* Lines 131-132 and 146-147.
pointDisplay(useScaleFactorOfDisplay, ds, type, point, isPhysical) ==
    displayToUse(useScaleFactorOfDisplay, ds,
                 getDisplayForPoint(ds, pointRoundToInt(type, point), isPhysical))

\* Lines 128-141: physicalToLogical (Point<ValueType>, const Display*).
physicalToLogicalPoint(ds, type, point, useScaleFactorOfDisplay) ==
    LET display == pointDisplay(useScaleFactorOfDisplay, ds, type, point, TRUE)
    IN  IF display = <<>> THEN point
        ELSE LET l == logicalTopLeft(type, display[1])
                 q == physicalTopLeft(type, display[1])
             IN  [ x |-> coordOver(type, point.x - q.x, display[1].scale) + l.x,
                   y |-> coordOver(type, point.y - q.y, display[1].scale) + l.y ]

\* Lines 143-156: logicalToPhysical (Point<ValueType>, const Display*).
logicalToPhysicalPoint(ds, type, point, useScaleFactorOfDisplay) ==
    LET display == pointDisplay(useScaleFactorOfDisplay, ds, type, point, FALSE)
    IN  IF display = <<>> THEN point
        ELSE LET l == logicalTopLeft(type, display[1])
                 q == physicalTopLeft(type, display[1])
             IN  [ x |-> coordTimes(type, point.x - l.x, display[1].scale) + q.x,
                   y |-> coordTimes(type, point.y - l.y, display[1].scale) + q.y ]

\* Rectangle<float> * double: every member multiplied by the scale factor.
RectTimes(r, scale) ==
    Rect(times(r.x, scale), times(r.y, scale), times(r.w, scale), times(r.h, scale))

\* Lines 101-102 and 118-119.
rectDisplay(useScaleFactorOfDisplay, ds, rect, isPhysical) ==
    displayToUse(useScaleFactorOfDisplay, ds,
                 getDisplayForRect(ds, toNearestInt(rect), isPhysical))

\* Lines 99-109: physicalToLogical (Rectangle<float>, const Display*).
physicalToLogicalRectFloat(ds, rect, useScaleFactorOfDisplay) ==
    LET display == rectDisplay(useScaleFactorOfDisplay, ds, rect, TRUE)
    IN  IF display = <<>> THEN rect
        ELSE RectPlus(RectDiv(RectMinus(rect, pointToFloat(getTopLeft(display[1].physicalBounds))),
                              display[1].scale),
                      getTopLeft(display[1].logicalBounds))

\* Lines 116-126: logicalToPhysical (Rectangle<float>, const Display*).
logicalToPhysicalRectFloat(ds, rect, useScaleFactorOfDisplay) ==
    LET display == rectDisplay(useScaleFactorOfDisplay, ds, rect, FALSE)
    IN  IF display = <<>> THEN rect
        ELSE RectPlus(RectTimes(RectMinus(rect, getTopLeft(display[1].logicalBounds)),
                                display[1].scale),
                      pointToFloat(getTopLeft(display[1].physicalBounds)))

\* Lines 94-97 and 111-114 with the two above: the overloads for
\* Rectangle<int> go through the ones for Rectangle<float>.
physicalToLogicalRect(ds, type, rect, useScaleFactorOfDisplay) ==
    IF type = "int"
    THEN toNearestInt(physicalToLogicalRectFloat(ds, toFloat(rect), useScaleFactorOfDisplay))
    ELSE physicalToLogicalRectFloat(ds, rect, useScaleFactorOfDisplay)

logicalToPhysicalRect(ds, type, rect, useScaleFactorOfDisplay) ==
    IF type = "int"
    THEN toNearestInt(logicalToPhysicalRectFloat(ds, toFloat(rect), useScaleFactorOfDisplay))
    ELSE logicalToPhysicalRectFloat(ds, rect, useScaleFactorOfDisplay)

\* The screens of the directory in the runs of the conversions.
ConvertChoices ==
    { PlatformDisplay(0, 0, 2, 2, 2, 0, TRUE), PlatformDisplay(2, 0, 2, 2, 1, 0, FALSE) }

\* A record of a single screen of 6 by 6 physical pixels at (x, 0) whose scale
\* factor is scale (in fixed point, so 1 is 0.5 and 3 is 1.5), as init leaves
\* it: the logical origin is the physical one divided by the scale factor.
ScaledDisplay(x, scale) ==
    init(<< [ PlatformDisplay(x, 0, 6, 6, 1, 0, TRUE) EXCEPT
                !.scale = scale, !.dpi = 96 * scale ] >>)[1]

\* The records a caller may hold and pass as useScaleFactorOfDisplay.
HeldDisplays == { ScaledDisplay(x, scale) : x \in {0, 3}, scale \in 1..4 }

\* The values of the argument useScaleFactorOfDisplay: nullptr, an element of
\* the directory, or a record the caller holds.
DisplayArgs ==
    { <<>> } \cup { << displays[i] >> : i \in 1..Len(displays) }
             \cup { << d >> : d \in HeldDisplays }

ValueTypes == {"int", "float"}

\* The points and rectangles passed to the conversions, per ValueType.
ConvertPoints(type) ==
    IF type = "int" THEN { [x |-> x, y |-> y] : x \in -1..4, y \in 0..1 }
    ELSE { [x |-> x, y |-> y] : x \in -2..8, y \in 0..1 }

ConvertRects(type) ==
    IF type = "int" THEN { Rect(x, 0, w, 2) : x \in {-1, 1, 3}, w \in {0, 2, 3} }
    ELSE { Rect(x, 0, w, 4) : x \in {-1, 2, 5}, w \in {2, 3, 4} }

\* The fixed-point numbers hold the quotient a / b exactly.
divides(b, a) == a % b = 0

\* The floating-point results of the conversion are values the fixed-point
\* numbers hold; there is no such condition on the results in whole pixels.
pointHeld(type, point, display, isPhysical) ==
    IF display = <<>> \/ type = "int" THEN TRUE
    ELSE
       LET d == display[1]
       IN  IF isPhysical
           THEN /\ divides(d.scale, (point.x - Px(d.physicalBounds.x)) * Den)
                /\ divides(d.scale, (point.y - Px(d.physicalBounds.y)) * Den)
           ELSE /\ divides(Den, (point.x - d.logicalBounds.x) * d.scale)
                /\ divides(Den, (point.y - d.logicalBounds.y) * d.scale)

rectHeld(rect, display, isPhysical) ==
    IF display = <<>> THEN TRUE
    ELSE
       LET d == display[1]
       IN  IF isPhysical
           THEN /\ divides(d.scale, (rect.x - Px(d.physicalBounds.x)) * Den)
                /\ divides(d.scale, (rect.y - Px(d.physicalBounds.y)) * Den)
                /\ divides(d.scale, rect.w * Den)
                /\ divides(d.scale, rect.h * Den)
           ELSE /\ divides(Den, (rect.x - d.logicalBounds.x) * d.scale)
                /\ divides(Den, (rect.y - d.logicalBounds.y) * d.scale)
                /\ divides(Den, rect.w * d.scale)
                /\ divides(Den, rect.h * d.scale)

\* A call of physicalToLogical on a point.
PhysicalToLogicalPoint ==
    /\ idle
    /\ \E type \in ValueTypes :
       \E point \in ConvertPoints(type), display \in DisplayArgs :
          /\ pointHeld(type, point, pointDisplay(display, displays, type, point, TRUE), TRUE)
          /\ call' = [ op |-> "physicalToLogical", shape |-> "point", type |-> type,
                       input |-> point, display |-> display, origin |-> <<>>,
                       result |-> physicalToLogicalPoint(displays, type, point, display) ]
    /\ readsOnly

\* A call of logicalToPhysical on a point.
LogicalToPhysicalPoint ==
    /\ idle
    /\ \E type \in ValueTypes :
       \E point \in ConvertPoints(type), display \in DisplayArgs :
          /\ pointHeld(type, point, pointDisplay(display, displays, type, point, FALSE), FALSE)
          /\ call' = [ op |-> "logicalToPhysical", shape |-> "point", type |-> type,
                       input |-> point, display |-> display, origin |-> <<>>,
                       result |-> logicalToPhysicalPoint(displays, type, point, display) ]
    /\ readsOnly

\* The caller converts back what logicalToPhysical returned, with the same
\* display: physicalToLogical (logicalToPhysical (p, d), d).  origin keeps p.
PhysicalToLogicalOfResult ==
    /\ call.op = "logicalToPhysical"
    /\ call.shape = "point"
    /\ call.display # <<>>
    /\ pointHeld(call.type, call.result, call.display, TRUE)
    /\ call' = [ op |-> "physicalToLogical", shape |-> "point", type |-> call.type,
                 input |-> call.result, display |-> call.display,
                 origin |-> << call.input >>,
                 result |-> physicalToLogicalPoint(displays, call.type, call.result,
                                                   call.display) ]
    /\ readsOnly

\* A call of physicalToLogical on a rectangle.
PhysicalToLogicalRect ==
    /\ idle
    /\ \E type \in ValueTypes :
       \E rect \in ConvertRects(type), display \in DisplayArgs :
          /\ LET r == IF type = "int" THEN toFloat(rect) ELSE rect
             IN  rectHeld(r, rectDisplay(display, displays, r, TRUE), TRUE)
          /\ call' = [ op |-> "physicalToLogical", shape |-> "rect", type |-> type,
                       input |-> rect, display |-> display, origin |-> <<>>,
                       result |-> physicalToLogicalRect(displays, type, rect, display) ]
    /\ readsOnly

\* A call of logicalToPhysical on a rectangle.
LogicalToPhysicalRect ==
    /\ idle
    /\ \E type \in ValueTypes :
       \E rect \in ConvertRects(type), display \in DisplayArgs :
          /\ LET r == IF type = "int" THEN toFloat(rect) ELSE rect
             IN  rectHeld(r, rectDisplay(display, displays, r, FALSE), FALSE)
          /\ call' = [ op |-> "logicalToPhysical", shape |-> "rect", type |-> type,
                       input |-> rect, display |-> display, origin |-> <<>>,
                       result |-> logicalToPhysicalRect(displays, type, rect, display) ]
    /\ readsOnly

ConvertInit ==
    /\ Constructed(ConvertChoices)
    /\ peerCalls = <<>>
    /\ NoJson
    /\ NoGui

ConvertNext ==
    \/ PhysicalToLogicalPoint
    \/ LogicalToPhysicalPoint
    \/ PhysicalToLogicalOfResult
    \/ PhysicalToLogicalRect
    \/ LogicalToPhysicalRect

ConvertSpec == ConvertInit /\ [][ConvertNext]_vars

-----------------------------------------------------------------------------
(* JSONUtils (modules/juce_core/json/juce_JSONUtils.cpp): getPointer and   *)
(* setPointer.  A String is a sequence of one-character strings.  A cell   *)
(* of heap is a DynamicObject (its NamedValueSet as the names and the      *)
(* values, in order) or an Array<var> (the values only).  A var* is a      *)
(* location: the var v itself, or element i of cell a.                     *)

MaxTokenLen == 3

ObjectCell(names, values) == [kind |-> "object", names |-> names, values |-> values]
ArrayCell(values)         == [kind |-> "array", names |-> <<>>, values |-> values]

RootLocation   == [a |-> 0, i |-> 0]
Location(a, i) == [a |-> a, i |-> i]

\* *p for a var* p, v being the var that RootLocation stands for.
load(h, v, loc) == IF loc = RootLocation THEN v ELSE h[loc.a].values[loc.i]

\* The number of cells of the tree that v holds.
RECURSIVE ownCells(_, _)
RECURSIVE ownCellsOfAll(_, _, _)
ownCells(h, v) ==
    IF v.t # "ref" THEN 0 ELSE 1 + ownCellsOfAll(h, h[v.n].values, 1)
ownCellsOfAll(h, values, k) ==
    IF k > Len(values) THEN 0
    ELSE ownCells(h, values[k]) + ownCellsOfAll(h, values, k + 1)

\* var::clone: a scalar is copied; an object or an array is copied into a new
\* cell, every value of it cloned first.
RECURSIVE clone(_, _)
RECURSIVE cloneAll(_, _, _, _)
clone(h, v) ==
    IF v.t # "ref" THEN [heap |-> h, value |-> v]
    ELSE LET copies == cloneAll(h, h[v.n].values, 1, <<>>)
         IN  [ heap  |-> Append(copies.heap, [h[v.n] EXCEPT !.values = copies.values]),
               value |-> Ref(Len(copies.heap) + 1) ]
cloneAll(h, values, k, done) ==
    IF k > Len(values) THEN [heap |-> h, values |-> done]
    ELSE LET c == clone(h, values[k])
         IN  cloneAll(c.heap, values, k + 1, Append(done, c.value))

\* String::startsWith and String::replace: every occurrence, from the left,
\* the inserted text not searched again.
startsWith(s, prefix) ==
    Len(s) >= Len(prefix) /\ SubSeq(s, 1, Len(prefix)) = prefix

RECURSIVE replace(_, _, _)
replace(s, from, to) ==
    IF s = <<>> THEN <<>>
    ELSE IF startsWith(s, from)
         THEN to \o replace(SubSeq(s, Len(from) + 1, Len(s)), from, to)
         ELSE << Head(s) >> \o replace(Tail(s), from, to)

\* Mutant of decodeToken: the two replacements in the other order.
decodeToken_tildeFirst(token) ==
    replace(replace(token, <<"~", "0">>, <<"~">>), <<"~", "1">>, <<"/">>)

\* Line 132: .replace ("~1", "/").replace ("~0", "~").
decodeToken(token) ==
    replace(replace(token, <<"~", "1">>, <<"/">>), <<"~", "0">>, <<"~">>)

Digits == <<"0", "1", "2", "3", "4", "5", "6", "7", "8", "9">>

\* String::getIntValue of a string of digits (0 for the empty string).
RECURSIVE getIntValue(_)
getIntValue(s) ==
    IF s = <<>> THEN 0
    ELSE 10 * getIntValue(SubSeq(s, 1, Len(s) - 1))
         + ((CHOOSE n \in 1..10 : Digits[n] = s[Len(s)]) - 1)

\* String::containsOnly ("0123456789").
containsOnlyDigits(s) == \A k \in 1..Len(s) : \E n \in 1..10 : Digits[n] = s[k]

\* Mutant of tokenIndex: a number with a leading zero is read as a number.
tokenIndex_leadingZeros(head) ==
    IF head = <<"-">> THEN << -1 >>
    ELSE IF head = <<>> \/ ~ containsOnlyDigits(head) THEN <<>>
    ELSE << getIntValue(head) >>

\* Lines 138-150: the index a token stands for, <<>> for an empty optional.
tokenIndex(head) ==
    IF head = <<"0">> THEN << 0 >>
    ELSE IF head = <<"-">> THEN << -1 >>
    ELSE IF startsWith(head, <<"0">>) \/ ~ containsOnlyDigits(head) THEN <<>>
    ELSE << getIntValue(head) >>

\* NamedValueSet: the position of name, 0 when there is none.
indexOfName(cell, name) ==
    IF \E k \in 1..Len(cell.names) : cell.names[k] = name
    THEN CHOOSE k \in 1..Len(cell.names) :
            cell.names[k] = name /\ \A m \in 1..(k - 1) : cell.names[m] # name
    ELSE 0

isObject(h, v) == v.t = "ref" /\ h[v.n].kind = "object"
isArray(h, v)  == v.t = "ref" /\ h[v.n].kind = "array"

\* isPositiveAndBelow.
isPositiveAndBelow(n, limit) == 0 <= n /\ n < limit

\* Lines 63-83: locateProperty for a const var& (mutable FALSE) and for a
\* var& (mutable TRUE).  leaf is <<>> for nullptr.
locateProperty(h, v, name, mutable) ==
    IF ~ isObject(h, v) THEN [heap |-> h, leaf |-> <<>>]
    ELSE LET k == indexOfName(h[v.n], name)
         IN  IF k # 0 THEN [heap |-> h, leaf |-> << Location(v.n, k) >>]
             ELSE IF ~ mutable THEN [heap |-> h, leaf |-> <<>>]
             ELSE [ heap |-> [h EXCEPT ![v.n] =
                                ObjectCell(Append(h[v.n].names, name),
                                           Append(h[v.n].values, Void))],
                    leaf |-> << Location(v.n, Len(h[v.n].names) + 1) >> ]

\* Mutant of locateIndex: the index -1 stands for the last element, and
\* nothing is added.
locateIndex_lastForMinusOne(h, v, index, mutable) ==
    IF ~ isArray(h, v) THEN [heap |-> h, leaf |-> <<>>]
    ELSE LET size == Len(h[v.n].values)
             correctedIndex == IF mutable /\ index = -1 THEN size - 1 ELSE index
         IN  IF isPositiveAndBelow(correctedIndex, size)
             THEN [heap |-> h, leaf |-> << Location(v.n, correctedIndex + 1) >>]
             ELSE [heap |-> h, leaf |-> <<>>]

\* Lines 85-115: locateIndex for a const var& and for a var&.
locateIndex(h, v, index, mutable) ==
    IF ~ isArray(h, v) THEN [heap |-> h, leaf |-> <<>>]
    ELSE LET size == Len(h[v.n].values)
         IN  IF ~ mutable
             THEN IF isPositiveAndBelow(index, size)
                  THEN [heap |-> h, leaf |-> << Location(v.n, index + 1) >>]
                  ELSE [heap |-> h, leaf |-> <<>>]
             ELSE LET correctedIndex == IF index = -1 THEN size ELSE index
                      h1 == IF correctedIndex = size
                            THEN [h EXCEPT ![v.n] = ArrayCell(Append(h[v.n].values, Void))]
                            ELSE h
                  IN  IF isPositiveAndBelow(correctedIndex, Len(h1[v.n].values))
                      THEN [heap |-> h1, leaf |-> << Location(v.n, correctedIndex + 1) >>]
                      ELSE [heap |-> h1, leaf |-> <<>>]

\* pointer.indexOfChar (1, '/'), or the length when there is none (lines
\* 129-130); positions count from 0.
nextSlash(pointer) ==
    IF \E k \in 2..Len(pointer) : pointer[k] = "/"
    THEN (CHOOSE k \in 2..Len(pointer) :
             pointer[k] = "/" /\ \A m \in 2..(k - 1) : pointer[m] # "/") - 1
    ELSE Len(pointer)

\* Lines 117-160: locate, on the var at location loc of the document v.
\* jassert tells that the jassertfalse of line 126 was reached.
RECURSIVE locate(_, _, _, _, _)
locate(h, v, loc, pointer, mutable) ==
    IF pointer = <<>> THEN [heap |-> h, leaf |-> << loc >>, jassert |-> FALSE]
    ELSE IF ~ startsWith(pointer, <<"/">>) THEN [heap |-> h, leaf |-> <<>>, jassert |-> TRUE]
    ELSE LET pos   == nextSlash(pointer)
             head  == decodeToken(SubSeq(pointer, 2, pos))
             tail  == SubSeq(pointer, pos + 1, Len(pointer))
             here  == load(h, v, loc)
             prop  == locateProperty(h, here, head, mutable)
             index == tokenIndex(head)
         IN  IF prop.leaf # <<>> THEN locate(prop.heap, v, prop.leaf[1], tail, mutable)
             ELSE IF index = <<>> THEN [heap |-> h, leaf |-> <<>>, jassert |-> FALSE]
             ELSE LET element == locateIndex(h, here, index[1], mutable)
                  IN  IF element.leaf # <<>>
                      THEN locate(element.heap, v, element.leaf[1], tail, mutable)
                      ELSE [heap |-> element.heap, leaf |-> <<>>, jassert |-> FALSE]

\* Lines 162-168: getPointer; result is <<>> for an empty optional.
getPointer(h, v, pointer) ==
    LET found == locate(h, v, RootLocation, pointer, FALSE)
    IN  [ heap    |-> h,
          result  |-> IF found.leaf # <<>> THEN << load(h, v, found.leaf[1]) >> ELSE <<>>,
          jassert |-> found.jassert ]

\* *leaf = newValue, and the var that v names afterwards.
store(h, v, loc, newValue) ==
    IF loc = RootLocation THEN [heap |-> h, value |-> newValue]
    ELSE [heap |-> [h EXCEPT ![loc.a].values[loc.i] = newValue], value |-> v]

\* Mutant of setPointer: locate works on v itself, there is no clone.
setPointer_withoutClone(h, v, pointer, newValue) ==
    LET found == locate(h, v, RootLocation, pointer, TRUE)
    IN  IF found.leaf = <<>>
        THEN [heap |-> found.heap, result |-> <<>>, jassert |-> found.jassert]
        ELSE LET stored == store(found.heap, v, found.leaf[1], newValue)
             IN  [heap |-> stored.heap, result |-> << stored.value >>, jassert |-> FALSE]

\* Lines 170-180: setPointer.  When it returns an empty optional the clone is
\* destroyed and its cells, the ones above those of h, are gone.
setPointer(h, v, pointer, newValue) ==
    LET cloned == clone(h, v)
        found  == locate(cloned.heap, cloned.value, RootLocation, pointer, TRUE)
    IN  IF found.leaf = <<>>
        THEN [ heap |-> SubSeq(found.heap, 1, Len(h)), result |-> <<>>,
               jassert |-> found.jassert ]
        ELSE LET stored == store(found.heap, cloned.value, found.leaf[1], newValue)
             IN  [heap |-> stored.heap, result |-> << stored.value >>, jassert |-> FALSE]

\* The documents a caller holds: an object whose keys need the escapes, an
\* object holding an array and an object, an array holding an object, and a
\* string.
JsonDocuments ==
    { [ heap |-> << ObjectCell(<< <<"a">>, <<"/">>, <<"~">>, <<"~", "1">>, <<"a", "/">> >>,
                               << IntVar(1), IntVar(2), IntVar(3), IntVar(4), IntVar(5) >>) >>,
        document |-> Ref(1) ],
      [ heap |-> << ObjectCell(<< <<"a">>, <<"0">> >>, << Ref(2), Ref(3) >>),
                    ArrayCell(<< IntVar(10), IntVar(11) >>),
                    ObjectCell(<< <<"a">> >>, << IntVar(5) >>) >>,
        document |-> Ref(1) ],
      [ heap |-> << ArrayCell(<< IntVar(0), Ref(2) >>),
                    ObjectCell(<< <<"1">> >>, << IntVar(7) >>) >>,
        document |-> Ref(1) ],
      [ heap |-> <<>>, document |-> StringVar(<<"a">>) ] }

\* The reference tokens tried: every string of at most MaxTokenLen of the
\* characters a, ~, 0 and 1, and the token "-".
TokenChars == {"a", "~", "0", "1"}

RECURSIVE StringsUpTo(_)
StringsUpTo(n) ==
    IF n = 0 THEN { <<>> }
    ELSE LET shorter == StringsUpTo(n - 1)
         IN  shorter \cup { Append(t, c) : t \in { u \in shorter : Len(u) = n - 1 },
                                           c \in TokenChars }

Tokens == StringsUpTo(MaxTokenLen) \cup { <<"-">> }

\* The JSON pointers tried: the empty one, one token, two short tokens, and
\* two that do not start with a slash.
Pointers ==
    { <<>>, <<"a">>, <<"a", "/", "a">> }
      \cup { <<"/">> \o t : t \in Tokens }
      \cup { <<"/">> \o t \o <<"/">> \o u :
               t \in { <<"a">>, <<"0">>, <<"1">>, <<"~", "1">> },
               u \in { <<"a">>, <<"0">>, <<"1">>, <<"2">>, <<"3">>, <<"-">>, <<"0", "1">> } }

NewValues == { IntVar(9), StringVar(<<"b">>) }

\* The caller's temporaries of the previous call are destroyed: the cells of
\* the document, allocated first, are the ones left.
released == SubSeq(heap, 1, ownCells(heap, document))

directoryUntouched ==
    /\ UNCHANGED <<displays, rawDisplays, peerCalls>>
    /\ UNCHANGED passVars
    /\ UNCHANGED guiVars

\* A call of JSONUtils::getPointer on the document.
GetPointer ==
    /\ \E pointer \in Pointers :
          LET done == getPointer(released, document, pointer)
          IN  /\ heap' = done.heap
              /\ call' = [ op |-> "getPointer", pointer |-> pointer, newValue |-> Void,
                           result |-> done.result, jassert |-> done.jassert ]
    /\ UNCHANGED document
    /\ directoryUntouched

\* A call of JSONUtils::setPointer on the document.
SetPointer ==
    /\ \E pointer \in Pointers, newValue \in NewValues :
          LET done == setPointer(released, document, pointer, newValue)
          IN  /\ heap' = done.heap
              /\ call' = [ op |-> "setPointer", pointer |-> pointer, newValue |-> newValue,
                           result |-> done.result, jassert |-> done.jassert ]
    /\ UNCHANGED document
    /\ directoryUntouched

JsonInit ==
    /\ Constructed({})
    /\ peerCalls = <<>>
    /\ \E d \in JsonDocuments :
          /\ heap = d.heap
          /\ document = d.document
    /\ NoGui

JsonNext ==
    \/ GetPointer
    \/ SetPointer

JsonSpec == JsonInit /\ [][JsonNext]_vars

-----------------------------------------------------------------------------
(* DropShadower (juce_DropShadower.cpp)                                    *)

\* The component a DropShadower is told to follow.
Owner == 1

\* What updateShadows reads of the owner, of Desktop and of the
\* VirtualDesktopWatcher.
DesktopStates ==
    [ isShowing : BOOLEAN, width : 0..1, height : 0..1, hasParent : BOOLEAN,
      canUseSemiTransparentWindows : BOOLEAN, shouldHideDropShadow : BOOLEAN ]

\* Lines 41-73: a ShadowWindow as constructed: no bounds given by updateShadows
\* yet (-1), not yet put behind anything (-1).
ShadowWindow == [bounds |-> -1, behind |-> -1]

\* Mutant of shadowsWanted: the height of the owner is not tested.
shadowsWanted_anyHeight(own, desk, watcher) ==
    /\ own # nullptr
    /\ desk.isShowing
    /\ desk.width > 0
    /\ (desk.canUseSemiTransparentWindows \/ desk.hasParent)
    /\ (~ watcher \/ ~ desk.shouldHideDropShadow)

\* Lines 386-390: the condition under which the owner gets its shadows.
shadowsWanted(own, desk, watcher) ==
    /\ own # nullptr
    /\ desk.isShowing
    /\ desk.width > 0 /\ desk.height > 0
    /\ (desk.canUseSemiTransparentWindows \/ desk.hasParent)
    /\ (~ watcher \/ ~ desk.shouldHideDropShadow)

\* Mutant of reentrantGuard: the guard lets every call in.
reentrantGuard_open(flag) == FALSE

\* Lines 381-382: the call returns at once when the flag is set.
reentrantGuard(flag) == flag

\* The call in progress that runs.
innermost == IF activeCalls = <<>> THEN [fn |-> "none"] ELSE activeCalls[Len(activeCalls)]

\* The innermost call goes on to the step pc (and to window i).
goTo(pc1, i1) ==
    [activeCalls EXCEPT ![Len(activeCalls)].pc = pc1, ![Len(activeCalls)].i = i1]

\* Lines 379-391 and 457: a call of updateShadows arrives, with the owner, the
\* desktop and the watcher as the caller left them.  The guard turns it away,
\* or the flag is set (the ScopedValueSetter of line 384 keeps its old value)
\* and the condition of lines 386-390 picks the branch.
updateShadows(own, desk, watcher) ==
    /\ arrivals' = 1 - arrivals
    /\ IF reentrantGuard(reentrant)
       THEN UNCHANGED <<reentrant, activeCalls>>
       ELSE /\ reentrant' = TRUE
            /\ activeCalls' =
                  Append(activeCalls,
                         [ fn |-> "updateShadows",
                           pc |-> IF ~ shadowsWanted(own, desk, watcher) THEN "clear"
                                  ELSE IF Len(shadowWindows) < 4 THEN "create"
                                  ELSE "setAlwaysOnTop",
                           i |-> 3,
                           originalValue |-> reentrant ])
    /\ UNCHANGED shadowWindows

\* No call is in progress and the DropShadower exists: the message loop may
\* deliver the next event.
betweenCalls == activeCalls = <<>> /\ lifetime = "alive"

\* Lines 306-334: setOwner with a component while there is no owner.  The
\* watchers are created and updateShadows is called.
SetOwner ==
    /\ betweenCalls
    /\ owner = nullptr
    /\ owner' = Owner
    /\ virtualDesktopWatcher' = TRUE
    /\ \E d \in DesktopStates :
          /\ d.canUseSemiTransparentWindows = desktop.canUseSemiTransparentWindows
          /\ desktop' = d
          /\ updateShadows(Owner, d, TRUE)
    /\ UNCHANGED lifetime

\* Lines 347-377 and 328: the owner or one of its parents was moved, resized,
\* shown, hidden, reparented or brought to the front, or the watcher changed
\* its mind; the listener callback calls updateShadows.
ComponentChanged ==
    /\ betweenCalls
    /\ owner # nullptr
    /\ \E d \in DesktopStates :
          /\ d.canUseSemiTransparentWindows = desktop.canUseSemiTransparentWindows
          /\ desktop' = d
          /\ updateShadows(owner, d, virtualDesktopWatcher)
    /\ UNCHANGED <<owner, virtualDesktopWatcher, lifetime>>

\* The owner is deleted: the WeakReference owner becomes null, and a parent it
\* had reports componentChildrenChanged (lines 359-362).
OwnerDeleted ==
    /\ betweenCalls
    /\ owner # nullptr
    /\ owner' = nullptr
    /\ IF desktop.hasParent
       THEN updateShadows(nullptr, desktop, virtualDesktopWatcher)
       ELSE UNCHANGED <<arrivals, reentrant, activeCalls, shadowWindows>>
    /\ UNCHANGED <<desktop, virtualDesktopWatcher, lifetime>>

\* Lines 392-393: one iteration of the while loop.
AddShadowWindow ==
    /\ lifetime = "alive"
    /\ innermost.fn = "updateShadows" /\ innermost.pc = "create"
    /\ shadowWindows' = Append(shadowWindows, ShadowWindow)
    /\ activeCalls' = IF Len(shadowWindows) + 1 < 4
                      THEN activeCalls
                      ELSE goTo("setAlwaysOnTop", 3)
    /\ UNCHANGED <<owner, desktop, virtualDesktopWatcher, reentrant, lifetime, arrivals>>

\* Lines 403-407: the window of this iteration is still there and
\* setAlwaysOnTop is called on it.
SetAlwaysOnTop ==
    /\ lifetime = "alive"
    /\ innermost.fn = "updateShadows" /\ innermost.pc = "setAlwaysOnTop"
    /\ activeCalls' = goTo("setBounds", innermost.i)
    /\ UNCHANGED <<owner, desktop, virtualDesktopWatcher, shadowWindows, reentrant,
                   lifetime, arrivals>>

\* Lines 409-448: the window is still there and gets the bounds of side i.
SetBounds ==
    /\ lifetime = "alive"
    /\ innermost.fn = "updateShadows" /\ innermost.pc = "setBounds"
    /\ shadowWindows' = [shadowWindows EXCEPT ![innermost.i + 1].bounds = innermost.i]
    /\ activeCalls' = goTo("toBehind", innermost.i)
    /\ UNCHANGED <<owner, desktop, virtualDesktopWatcher, reentrant, lifetime, arrivals>>

\* Lines 450-453 and 399: the window is still there and goes behind the owner
\* (4) or behind the window after it; the loop moves on.
ToBehind ==
    /\ lifetime = "alive"
    /\ innermost.fn = "updateShadows" /\ innermost.pc = "toBehind"
    /\ shadowWindows' = [shadowWindows EXCEPT ![innermost.i + 1].behind = innermost.i + 1]
    /\ activeCalls' = IF innermost.i > 0
                      THEN goTo("setAlwaysOnTop", innermost.i - 1)
                      ELSE goTo("return", 0)
    /\ UNCHANGED <<owner, desktop, virtualDesktopWatcher, reentrant, lifetime, arrivals>>

\* Line 459.
ClearShadowWindows ==
    /\ lifetime = "alive"
    /\ innermost.fn = "updateShadows" /\ innermost.pc = "clear"
    /\ shadowWindows' = <<>>
    /\ activeCalls' = goTo("return", 0)
    /\ UNCHANGED <<owner, desktop, virtualDesktopWatcher, reentrant, lifetime, arrivals>>

\* Line 461: the call ends and the ScopedValueSetter of line 384 puts the old
\* value back.
Return ==
    /\ lifetime = "alive"
    /\ innermost.fn = "updateShadows" /\ innermost.pc = "return"
    /\ reentrant' = innermost.originalValue
    /\ activeCalls' = SubSeq(activeCalls, 1, Len(activeCalls) - 1)
    /\ UNCHANGED <<owner, desktop, virtualDesktopWatcher, shadowWindows, lifetime, arrivals>>

\* A component-listener callback raised by the creation of a window (line
\* 393), by setAlwaysOnTop, setBounds or toBehind (lines 407, 447, 453), or by
\* the deletion of the windows (lines 303, 459) calls updateShadows while the
\* call that raised it is in progress.
ReentrantCall ==
    /\ lifetime = "alive"
    /\ activeCalls # <<>>
    /\ updateShadows(owner, desktop, virtualDesktopWatcher)
    /\ UNCHANGED <<owner, desktop, virtualDesktopWatcher, lifetime>>

\* Lines 401-402: the callbacks raised inside the loop over the windows may
\* delete the DropShadower.
insideLoop ==
    /\ innermost.fn = "updateShadows"
    /\ \/ innermost.pc \in {"setBounds", "toBehind"}
       \/ innermost.pc = "setAlwaysOnTop" /\ innermost.i < 3
       \/ innermost.pc = "return" /\ shadowWindows # <<>>

\* Lines 289-302: the destructor up to the clearing of the windows, run by the
\* message loop or by a callback inside the loop of updateShadows.
DestructorBegins ==
    /\ lifetime = "alive"
    /\ IF activeCalls = <<>> THEN TRUE ELSE insideLoop
    /\ owner' = nullptr
    /\ reentrant' = TRUE
    /\ activeCalls' = Append(activeCalls,
                             [ fn |-> "~DropShadower", pc |-> "clear", i |-> 0,
                               originalValue |-> reentrant ])
    /\ UNCHANGED <<desktop, virtualDesktopWatcher, shadowWindows, lifetime, arrivals>>

\* Lines 303-304: the windows are deleted, the flag gets its old value back
\* and the object is gone.
DestructorEnds ==
    /\ lifetime = "alive"
    /\ innermost.fn = "~DropShadower"
    /\ shadowWindows' = <<>>
    /\ reentrant' = innermost.originalValue
    /\ activeCalls' = SubSeq(activeCalls, 1, Len(activeCalls) - 1)
    /\ lifetime' = "destroyed"
    /\ UNCHANGED <<owner, desktop, virtualDesktopWatcher, arrivals>>

\* Lines 409-410 and 450-451: the call of updateShadows that was in progress
\* when the DropShadower was deleted finds its window gone and returns (after
\* toBehind it reads shadowWindows without such a test).  The
\* ScopedValueSetter of line 384 then writes to the flag of an object that no
\* longer exists: what is found there afterwards is not defined.
ReturnAfterDeletion ==
    /\ lifetime = "destroyed"
    /\ innermost.fn = "updateShadows"
    /\ reentrant' \in BOOLEAN
    /\ activeCalls' = SubSeq(activeCalls, 1, Len(activeCalls) - 1)
    /\ lifetime' = "useAfterFree"
    /\ UNCHANGED <<owner, desktop, virtualDesktopWatcher, shadowWindows, arrivals>>

\* Line 287: a DropShadower as constructed, on either kind of platform.
ShadowInit ==
    /\ Constructed({})
    /\ peerCalls = <<>>
    /\ NoJson
    /\ NoListener
    /\ owner = nullptr
    /\ desktop \in DesktopStates
    /\ virtualDesktopWatcher = FALSE
    /\ shadowWindows = <<>>
    /\ reentrant = FALSE
    /\ activeCalls = <<>>
    /\ lifetime = "alive"
    /\ arrivals = 0

shadowOnly ==
    /\ UNCHANGED <<displays, rawDisplays>>
    /\ UNCHANGED passVars
    /\ UNCHANGED callerVars
    /\ UNCHANGED jsonVars
    /\ UNCHANGED listenerVars

ShadowNext ==
    \/ SetOwner /\ shadowOnly
    \/ ComponentChanged /\ shadowOnly
    \/ OwnerDeleted /\ shadowOnly
    \/ AddShadowWindow /\ shadowOnly
    \/ SetAlwaysOnTop /\ shadowOnly
    \/ SetBounds /\ shadowOnly
    \/ ToBehind /\ shadowOnly
    \/ ClearShadowWindows /\ shadowOnly
    \/ Return /\ shadowOnly
    \/ ReentrantCall /\ shadowOnly
    \/ DestructorBegins /\ shadowOnly
    \/ DestructorEnds /\ shadowOnly
    \/ ReturnAfterDeletion /\ shadowOnly

ShadowSpec == ShadowInit /\ [][ShadowNext]_vars

-----------------------------------------------------------------------------
(* DropShadower::ParentVisibilityChangedListener                           *)

\* The addresses at which components live, and how often one of them is
\* given to a new component after the deletion of the one before.
MaxComponents == 3
MaxReuse == 1

Components == 1..MaxComponents

\* Line 185: the component the listener is constructed with (the owner of the
\* DropShadower).  It outlives the listener here.
listenerRoot == 1

\* Lines 231-232: node and its parents, as the loop over getParentComponent
\* collects them.
RECURSIVE ancestorChain(_, _)
ancestorChain(node, parents) ==
    IF node = nullptr THEN {}
    ELSE {node} \cup ancestorChain(parents[node], parents)

\* Lines 213-214: a ComponentWithWeakReference: the address and a weak
\* reference to the component that is there now.
ComponentWithWeakReference(c) == [ptr |-> c, ref |-> generation[c]]

\* Line 216: the component, nullptr once it has been deleted (also when a new
\* component lives at its address).
get(item, live, gen) ==
    IF item.ptr \in live /\ gen[item.ptr] = item.ref THEN item.ptr ELSE nullptr

\* Mutant of set_difference: every item of rangeA is in the difference.
set_difference_all(rangeA, rangeB) == rangeA

\* Lines 218 and 240: std::set_difference of two sets ordered by operator<,
\* which compares the addresses only.
set_difference(rangeA, rangeB) ==
    { a \in rangeA : \A b \in rangeB : b.ptr # a.ptr }

\* Lines 237-245: the components the callback is called with.
withDifference(rangeA, rangeB, live, gen) ==
    { get(item, live, gen) : item \in set_difference(rangeA, rangeB) } \ {nullptr}

\* Lines 225-249: updateParentHierarchy in a tree with the given parents: the
\* new observedComponents, the components the listener is then registered
\* on, and the components removeComponentListener and addComponentListener
\* were called on.
updateParentHierarchy(parents, observed, registered) ==
    LET chain    == { ComponentWithWeakReference(c) : c \in ancestorChain(listenerRoot, parents) }
        lastSeen == observed
        removed  == withDifference(lastSeen, chain, liveComponents, generation)
        added    == withDifference(chain, lastSeen, liveComponents, generation)
    IN  [ observedComponents |-> chain,
          componentListeners |-> (registered \ removed) \cup added,
          added              |-> added,
          removed            |-> removed ]

\* Component::internalHierarchyChanged below component c, the tree now having
\* the given parents: the root hears of it when c is the root or one of its
\* parents, the listener hears of it when it is registered on the root, and
\* lines 203-207 then update the hierarchy.
hierarchyChanged(c, parents) ==
    IF /\ listenerState = "constructed"
       /\ c \in ancestorChain(listenerRoot, parents)
       /\ listenerRoot \in componentListeners
    THEN LET u == updateParentHierarchy(parents, observedComponents, componentListeners)
         IN  u @@ [ ran |-> TRUE ]
    ELSE [ observedComponents |-> observedComponents,
           componentListeners |-> componentListeners,
           added |-> {}, removed |-> {}, ran |-> FALSE ]

\* The listener's state after the event u, on components that are then live.
heard(u, live) ==
    /\ observedComponents' = u.observedComponents
    /\ componentListeners' = u.componentListeners \cap live
    /\ lastUpdate' = IF u.ran
                     THEN [ added |-> u.added, removed |-> u.removed,
                            count |-> 1 - lastUpdate.count ]
                     ELSE lastUpdate

\* The components below c in the tree, c included.
RECURSIVE subtree(_, _)
subtree(S, parents) ==
    LET T == S \cup { d \in Components : parents[d] \in S }
    IN  IF T = S THEN S ELSE subtree(T, parents)

\* Lines 184-188: the listener is constructed.
ConstructListener ==
    /\ listenerState = "none"
    /\ listenerState' = "constructed"
    /\ LET u == updateParentHierarchy(parentComponent, {}, {})
       IN  heard(u @@ [ran |-> TRUE], liveComponents)
    /\ UNCHANGED <<parentComponent, generation, liveComponents>>

\* Component::addChildComponent: a component without a parent becomes the
\* child of another one, and the components below it are told.
AddChildComponent ==
    \E c \in liveComponents, p \in liveComponents :
        /\ parentComponent[c] = nullptr
        /\ p \notin subtree({c}, parentComponent)
        /\ LET parents == [parentComponent EXCEPT ![c] = p]
           IN  /\ parentComponent' = parents
               /\ heard(hierarchyChanged(c, parents), liveComponents)
        /\ UNCHANGED <<generation, liveComponents, listenerState>>

\* Component::removeChildComponent: a component leaves its parent, and the
\* components below it are told.
RemoveChildComponent ==
    \E c \in liveComponents :
        /\ parentComponent[c] # nullptr
        /\ LET parents == [parentComponent EXCEPT ![c] = nullptr]
           IN  /\ parentComponent' = parents
               /\ heard(hierarchyChanged(c, parents), liveComponents)
        /\ UNCHANGED <<generation, liveComponents, listenerState>>

\* Component::~Component of a component other than the root: its children
\* leave it and are told, then the weak references to it are cleared and it
\* leaves its parent; its list of listeners goes with it.
DeleteComponent ==
    \E c \in liveComponents \ {listenerRoot} :
        /\ generation[c] < MaxReuse
        /\ LET parents == [ d \in Components |->
                              IF d = c \/ parentComponent[d] = c THEN nullptr
                              ELSE parentComponent[d] ]
               \* the root is below one of the children when c is one of its parents
               orphan  == IF c \in ancestorChain(listenerRoot, parentComponent)
                          THEN listenerRoot ELSE c
               live    == liveComponents \ {c}
           IN  /\ parentComponent' = parents
               /\ liveComponents' = live
               /\ heard(hierarchyChanged(orphan, parents), live)
        /\ generation' = [generation EXCEPT ![c] = @ + 1]
        /\ UNCHANGED listenerState

\* A new component is constructed at the address of a deleted one.
CreateComponent ==
    \E c \in Components \ liveComponents :
        /\ liveComponents' = liveComponents \cup {c}
        /\ UNCHANGED <<parentComponent, generation, componentListeners,
                       observedComponents, listenerState, lastUpdate>>

\* Lines 190-195: the destructor.
DestroyListener ==
    /\ listenerState = "constructed"
    /\ listenerState' = "destroyed"
    /\ componentListeners' =
          componentListeners \
             { get(compEntry, liveComponents, generation) : compEntry \in observedComponents }
    /\ UNCHANGED <<parentComponent, generation, liveComponents, observedComponents,
                   lastUpdate>>

HierarchyInit ==
    /\ Constructed({})
    /\ peerCalls = <<>>
    /\ NoJson
    /\ NoShadower
    /\ parentComponent = [c \in Components |-> nullptr]
    /\ generation = [c \in Components |-> 0]
    /\ liveComponents = Components
    /\ componentListeners = {}
    /\ observedComponents = {}
    /\ listenerState = "none"
    /\ lastUpdate = [added |-> {}, removed |-> {}, count |-> 0]

hierarchyOnly ==
    /\ UNCHANGED <<displays, rawDisplays>>
    /\ UNCHANGED passVars
    /\ UNCHANGED callerVars
    /\ UNCHANGED jsonVars
    /\ UNCHANGED shadowerVars

HierarchyNext ==
    \/ ConstructListener /\ hierarchyOnly
    \/ AddChildComponent /\ hierarchyOnly
    \/ RemoveChildComponent /\ hierarchyOnly
    \/ DeleteComponent /\ hierarchyOnly
    \/ CreateComponent /\ hierarchyOnly
    \/ DestroyListener /\ hierarchyOnly

HierarchySpec == HierarchyInit /\ [][HierarchyNext]_vars

-----------------------------------------------------------------------------
(* Vocabulary of the properties, written independently of the operators    *)
(* above.                                                                  *)

N == Len(displays)

raw(i) == rawDisplays[i].logicalBounds
rawUser(i) == rawDisplays[i].userBounds
\* The scale factor of display i, a whole number in the layouts enumerated here.
scaleOf(i) == rawDisplays[i].scale \div Den
logical(i) == displays[i].logicalBounds
user(i) == displays[i].userBounds

Sides == <<"left", "right", "top", "bottom">>

\* Rectangle a lies on the given side of rectangle b with the facing edges on
\* the same line: no gap and no overlap along that axis.
EdgeMeets(a, b, side) ==
    CASE side = "left"   -> a.x + a.w = b.x
      [] side = "right"  -> a.x = b.x + b.w
      [] side = "top"    -> a.y + a.h = b.y
      [] side = "bottom" -> a.y = b.y + b.h

\* The facing edges also share a stretch of positive length.
SharesEdge(a, b, side) ==
    /\ EdgeMeets(a, b, side)
    /\ IF side \in {"left", "right"}
       THEN a.y < b.y + b.h /\ b.y < a.y + a.h
       ELSE a.x < b.x + b.w /\ b.x < a.x + a.w

\* The interiors of a and b intersect.
Overlap(a, b) ==
    /\ a.x < b.x + b.w /\ b.x < a.x + a.w
    /\ a.y < b.y + b.h /\ b.y < a.y + a.h

\* The first side, in the order left, right, top, bottom, on which a meets b.
FirstSide(a, b) ==
    IF \E k \in 1..4 : EdgeMeets(a, b, Sides[k])
    THEN Sides[CHOOSE k \in 1..4 :
                  /\ EdgeMeets(a, b, Sides[k])
                  /\ \A m \in 1..(k - 1) : ~ EdgeMeets(a, b, Sides[m])]
    ELSE "none"

\* a is b scaled down by the factor s, position included.
IsScaled(a, b, s) == a.x * s = b.x /\ a.y * s = b.y /\ a.w * s = b.w /\ a.h * s = b.h

\* The displays reachable from those of S along pairs of raw rectangles that
\* meet on some side (strict: that share a stretch of an edge).
RECURSIVE ReachableFrom(_, _)
ReachableFrom(S, strict) ==
    LET T == S \cup { j \in 1..N : \E i \in S : \E k \in 1..4 :
                        IF strict
                        THEN SharesEdge(raw(j), raw(i), Sides[k])
                        ELSE EdgeMeets(raw(j), raw(i), Sides[k]) }
    IN  IF T = S THEN S ELSE ReachableFrom(T, strict)

\* The layout is connected under the touching relation.
Connected(strict) == N > 0 /\ ReachableFrom({1}, strict) = 1..N

\* No two displays of the layout overlap.
NonOverlapping == \A i, j \in 1..N : i # j => ~ Overlap(raw(i), raw(j))

\* The pass over several displays has finished.
Resolved == pc = "done" /\ N > 1

\* Node i was placed by the non-root branch of processDisplay.
Placed(i) ==
    /\ invoked[i] > 0
    /\ ~ displayNodes[i].isRoot
    /\ displayNodes[i].parent # nullptr

-----------------------------------------------------------------------------
(* C1 *)

\* C1 (as claimed): in a connected layout of N > 1 displays, after
\* updateToLogical every two displays that touch in physical space, parent and
\* child of the traversal or not, have logical rectangles that touch on the
\* same side with no gap and no overlap.
C1_EveryTouchingPairContinuous ==
    (Resolved /\ NonOverlapping /\ Connected(TRUE)) =>
        \A i, j \in 1..N : \A k \in 1..4 :
            (i # j /\ SharesEdge(raw(i), raw(j), Sides[k]))
                => EdgeMeets(logical(i), logical(j), Sides[k])

\* C1 (amended): after updateToLogical every display that was placed against
\* a parent has a logical rectangle that meets its parent's logical rectangle,
\* with no gap and no overlap, on the first side (left, right, top, bottom) on
\* which their physical rectangles meet.
C1_ParentChildContinuous ==
    Resolved =>
        \A i \in 1..N :
            Placed(i) =>
                LET p    == displayNodes[i].parent
                    side == FirstSide(raw(i), raw(p))
                IN  /\ side # "none"
                    /\ EdgeMeets(logical(i), logical(p), side)

\* Three displays, a child of a child of the root, parent and child at
\* different scales.
C1_Witness ==
    /\ Resolved
    /\ \E i \in 1..N :
          /\ Placed(i)
          /\ displayNodes[i].parent # root
          /\ scaleOf(i) # scaleOf(displayNodes[i].parent)
          /\ scaleOf(displayNodes[i].parent) # scaleOf(root)

-----------------------------------------------------------------------------
(* C2 *)

\* C2: with exactly one display, updateToLogical leaves logicalBounds equal to
\* the raw bounds divided by the display's scale and userBounds equal to the
\* raw user bounds divided by the same scale, and builds no graph.
C2_SingleDisplayScaled ==
    (pc = "done" /\ N = 1) =>
        /\ IsScaled(logical(1), raw(1), scaleOf(1))
        /\ IsScaled(user(1), rawUser(1), scaleOf(1))
        /\ displayNodes = <<>>
        /\ root = nullptr

\* One display away from the origin at scale 2 has been converted.
C2_Witness ==
    /\ pc = "done" /\ N = 1
    /\ scaleOf(1) = 2
    /\ raw(1).x # 0 /\ raw(1).y # 0
    /\ rawUser(1) # raw(1)

-----------------------------------------------------------------------------
(* C3 *)

AtOrigin(i) == raw(i).x = 0 /\ raw(i).y = 0

\* Square of the Euclidean distance of display i's raw top-left from the origin.
DistSq(i) == raw(i).x * raw(i).x + raw(i).y * raw(i).y

\* The root the claim describes.
ExpectedRoot ==
    IF \E i \in 1..N : AtOrigin(i)
    THEN CHOOSE i \in 1..N : AtOrigin(i) /\ \A j \in 1..(i - 1) : ~ AtOrigin(j)
    ELSE CHOOSE i \in 1..N :
            /\ \A j \in 1..N : DistSq(i) <= DistSq(j)
            /\ \A j \in 1..(i - 1) : DistSq(j) > DistSq(i)

\* C3: for N > 1 the root is the first display whose raw top-left is (0,0);
\* failing that, the display whose raw top-left is nearest the origin, the
\* first of them in iteration order on a tie.
C3_RootChoice ==
    (pc \in {"traverse", "commit", "done"} /\ N > 1) => root = ExpectedRoot

\* No display at the origin, and a later display as near as the root.
C3_Witness ==
    /\ Resolved
    /\ \A i \in 1..N : ~ AtOrigin(i)
    /\ \E j \in 1..N : j > root /\ DistSq(j) = DistSq(root)
    /\ \E j \in 1..N : j < root /\ DistSq(j) > DistSq(root)

-----------------------------------------------------------------------------
(* C4 *)

\* C4: after resolution the root's logical top-left is its physical top-left
\* divided by its own scale and its logical size is its physical size divided
\* by its scale.
C4_RootScaledNotTranslated ==
    Resolved => IsScaled(logical(root), raw(root), scaleOf(root))

\* A root away from the origin at scale 2.
C4_Witness ==
    /\ Resolved
    /\ scaleOf(root) = 2
    /\ raw(root).x # 0
    /\ logical(root).x # 0

-----------------------------------------------------------------------------
(* C5 *)

\* The placement the claim prescribes for a display a with scale s whose
\* parent has the physical rectangle P, the logical rectangle L and the scale
\* ps, as a condition on the display's logical rectangle la.
PlacedAsClaimed(la, a, s, P, L, ps) ==
    /\ la.w * s = a.w
    /\ la.h * s = a.h
    /\ IF a.x + a.w = P.x      THEN la.x = L.x - la.w   /\ la.y * ps = a.y
       ELSE IF a.x = P.x + P.w THEN la.x = L.x + L.w    /\ la.y * ps = a.y
       ELSE IF a.y + a.h = P.y THEN la.y = L.y - la.h   /\ la.x * ps = a.x
       ELSE IF a.y = P.y + P.h THEN la.y = L.y + L.h    /\ la.x * ps = a.x
       ELSE TRUE

-----------------------------------------------------------------------------
(* C6 *)

\* C6: in a layout connected under the touching relation the traversal from
\* the root gives every node a parent, so the check of the final loop holds
\* for every node.
C6_ConnectedAllParented ==
    (pc \in {"commit", "done"} /\ N > 1 /\ Connected(FALSE)) =>
        \A i \in 1..N : displayNodes[i].parent # nullptr /\ invoked[i] > 0

\* A connected layout of more than two displays with a node below a child of
\* the root.
C6_Witness ==
    /\ Resolved
    /\ N > 2
    /\ Connected(FALSE)
    /\ \E i \in 1..N : displayNodes[i].parent \notin {i, root}

-----------------------------------------------------------------------------
(* C7 *)

\* C7: during one pass processDisplay is invoked at most once per node and a
\* node's parent, once assigned, is never assigned again.
C7_ParentAssignedOnce ==
    /\ [][ pc = "traverse" =>
             \A i \in 1..Len(displayNodes) :
                displayNodes[i].parent # nullptr
                   => displayNodes'[i].parent = displayNodes[i].parent ]_vars
    /\ [](\A i \in 1..Len(invoked) : invoked[i] <= 1)

\* The part of C7 that holds: no node is processed twice.
C7_InvokedAtMostOnce ==
    \A i \in 1..Len(invoked) : invoked[i] <= 1

-----------------------------------------------------------------------------
(* C8 *)

RECURSIVE SumSeq(_)
SumSeq(q) == IF q = <<>> THEN 0 ELSE q[1] + SumSeq(Tail(q))

\* C8: updateToLogical terminates for every non-empty display set, and one
\* pass makes no more processDisplay calls than there are displays.
C8_TerminatesWithinNCalls ==
    /\ (N >= 1) ~> (pc = "done")
    /\ [](SumSeq(invoked) <= N)

\* A pass over the largest layout has ended after one call per display.
C8_Witness ==
    /\ pc = "done"
    /\ N = MaxDisplays
    /\ SumSeq(invoked) = N

-----------------------------------------------------------------------------
(* C9 *)

\* Rectangle inner lies within rectangle outer.
Within(inner, outer) ==
    /\ outer.x <= inner.x /\ inner.x + inner.w <= outer.x + outer.w
    /\ outer.y <= inner.y /\ inner.y + inner.h <= outer.y + outer.h

\* userBounds of display i is the raw user area, taken relative to the raw
\* top-left, divided by the scale and moved to the resolved top-left.
UserReanchored(i) ==
    /\ (user(i).x - logical(i).x) * scaleOf(i) = rawUser(i).x - raw(i).x
    /\ (user(i).y - logical(i).y) * scaleOf(i) = rawUser(i).y - raw(i).y
    /\ user(i).w * scaleOf(i) = rawUser(i).w
    /\ user(i).h * scaleOf(i) = rawUser(i).h

\* C9: after resolution of N > 1 displays each display's userBounds is the raw
\* user area re-anchored as above; hence a raw user area within the raw bounds
\* gives a userBounds within the resolved logicalBounds.  (Stated for layouts
\* whose displays do not overlap, which is all a refutation needs.)
C9_UserBoundsWithinLogical ==
    (Resolved /\ NonOverlapping) =>
        \A i \in 1..N :
            /\ UserReanchored(i)
            /\ Within(rawUser(i), raw(i)) => Within(user(i), logical(i))

\* The part of C9 that holds of every display: the re-anchoring itself.
C9_UserBoundsReanchored ==
    Resolved => \A i \in 1..N : UserReanchored(i)

-----------------------------------------------------------------------------
(* C10 *)

\* C10: in the pass over several displays no record is written before the
\* traversal has ended, so processDisplay reads raw rectangles only, and each
\* record is written by its own iteration of the final loop.
C10_CommitOnlyInFinalLoop ==
    \A i \in 1..N :
        (pc = "traverse" \/ (pc = "commit" /\ i >= commitIdx))
            => displays[i] = rawDisplays[i]

\* Inside a nested processDisplay call a logical area has been computed that
\* differs from the raw rectangle still held by the record.
C10_Witness ==
    /\ pc = "traverse"
    /\ Len(stack) >= 2
    /\ \E i \in 1..N :
          /\ invoked[i] > 0
          /\ displayNodes[i].logicalArea # raw(i)
          /\ displays[i].logicalBounds = raw(i)

-----------------------------------------------------------------------------
(* C11 *)

\* C11: a refresh after which the display array equals the array before it
\* (same length, every field of every record equal, in order) calls
\* handleScreenSizeChange on no peer, and any other refresh calls it on every
\* live peer exactly once; a refresh over unchanged platform input is of the
\* first kind.
C11_RefreshNotifiesOnChange ==
    [][ call'.op = "refresh" =>
          /\ Len(peerCalls') = Len(peerCalls)
          /\ IF displays' = displays
             THEN \A i \in 1..Len(peerCalls') : peerCalls'[i] = 0
             ELSE \A i \in 1..Len(peerCalls') : peerCalls'[i] = 1
          /\ rawDisplays' = rawDisplays =>
                \A i \in 1..Len(peerCalls') : peerCalls'[i] = 0 ]_vars

\* A refresh of a directory of several displays, with peers alive, has found
\* nothing changed and has notified nobody.
C11_Witness ==
    /\ call.op = "refresh"
    /\ N > 1
    /\ Len(peerCalls) = MaxPeers
    /\ \A i \in 1..Len(peerCalls) : peerCalls[i] = 0

-----------------------------------------------------------------------------
(* Vocabulary of the properties about the lookups                          *)

\* The whole number nearest the fixed-point value v, the even one of the two
\* when v lies halfway between them.
Nearest(v) ==
    LET f == v \div Den
    IN  CHOOSE n \in {f, f + 1} :
           LET d == v - n * Den
           IN  \/ (2 * d < Den /\ 2 * d > - Den)
               \/ (2 * d = Den /\ n % 2 = 0)
               \/ (2 * d = - Den /\ n % 2 = 0)

\* The bounds of display i in the space of the lookup, in whole pixels: the
\* physical bounds, or the logical bounds rounded to integers.
QueryBounds(i, isPhysical) ==
    IF isPhysical THEN displays[i].physicalBounds
    ELSE LET b == displays[i].logicalBounds
         IN  Rect(Nearest(b.x), Nearest(b.y), Nearest(b.w), Nearest(b.h))

\* p lies in the interior of r.
StrictlyInside(p, r) ==
    /\ r.x < p.x /\ p.x < r.x + r.w
    /\ r.y < p.y /\ p.y < r.y + r.h

\* p is a pixel of r: on or after the left and top edges, before the right and
\* bottom edges.
PixelOf(p, r) ==
    /\ r.x <= p.x /\ p.x < r.x + r.w
    /\ r.y <= p.y /\ p.y < r.y + r.h

\* Four times the square of the Euclidean distance of p from the centre of r.
CentreDistSq(p, r) ==
    (2 * p.x - 2 * r.x - r.w) * (2 * p.x - 2 * r.x - r.w)
  + (2 * p.y - 2 * r.y - r.h) * (2 * p.y - 2 * r.y - r.h)

\* The area r and q have in common.
CommonArea(r, q) ==
    LET left   == IF r.x >= q.x THEN r.x ELSE q.x
        top    == IF r.y >= q.y THEN r.y ELSE q.y
        right  == IF r.x + r.w <= q.x + q.w THEN r.x + r.w ELSE q.x + q.w
        bottom == IF r.y + r.h <= q.y + q.h THEN r.y + r.h ELSE q.y + q.h
    IN  IF right > left /\ bottom > top THEN (right - left) * (bottom - top) ELSE 0

-----------------------------------------------------------------------------
(* C13 *)

\* C13 (as claimed): when the point lies strictly inside the bounds of exactly
\* one display, getDisplayForPoint returns that display.  (Stated for lookups
\* in physical space, which is all a refutation needs.)
C13_StrictlyInsideOneReturned ==
    (call.op = "getDisplayForPoint" /\ call.isPhysical) =>
        \A i \in 1..N :
            ( /\ StrictlyInside(call.point, QueryBounds(i, call.isPhysical))
              /\ \A j \in 1..N :
                    j # i => ~ StrictlyInside(call.point, QueryBounds(j, call.isPhysical)) )
                => call.result = i

\* C13 (amended): when exactly one display's bounds (physical, or logical
\* rounded to integers) contain the point, their left and top edges counted
\* in and their right and bottom edges counted out, getDisplayForPoint returns
\* that display, wherever it stands in the array and however near the centres
\* of the other displays are.
C13_ContainedInOneReturned ==
    call.op = "getDisplayForPoint" =>
        \A i \in 1..N :
            ( /\ PixelOf(call.point, QueryBounds(i, call.isPhysical))
              /\ \A j \in 1..N :
                    j # i => ~ PixelOf(call.point, QueryBounds(j, call.isPhysical)) )
                => call.result = i

\* In a layout of displays side by side the point is strictly inside one
\* display only, and a display earlier in the array has its centre strictly
\* nearer the point.
C13_Witness ==
    /\ call.op = "getDisplayForPoint"
    /\ NonOverlapping /\ Connected(TRUE)
    /\ \E i \in 1..N :
          /\ StrictlyInside(call.point, QueryBounds(i, call.isPhysical))
          /\ \A j \in 1..N : j # i => ~ PixelOf(call.point, QueryBounds(j, call.isPhysical))
          /\ \E j \in 1..(i - 1) :
                CentreDistSq(call.point, QueryBounds(j, call.isPhysical))
                    < CentreDistSq(call.point, QueryBounds(i, call.isPhysical))
          /\ call.result = i

-----------------------------------------------------------------------------
(* C14 *)

\* C14: when no display's bounds contain the point, getDisplayForPoint returns
\* a display whose bounds centre is at the least Euclidean distance from the
\* point, the last such display of the array.
C14_NearestCentreLastOnTie ==
    ( /\ call.op = "getDisplayForPoint"
      /\ N >= 1
      /\ \A j \in 1..N : ~ PixelOf(call.point, QueryBounds(j, call.isPhysical)) )
        => /\ call.result \in 1..N
           /\ \A j \in 1..N :
                 CentreDistSq(call.point, QueryBounds(call.result, call.isPhysical))
                    <= CentreDistSq(call.point, QueryBounds(j, call.isPhysical))
           /\ \A j \in (call.result + 1)..N :
                 CentreDistSq(call.point, QueryBounds(call.result, call.isPhysical))
                    < CentreDistSq(call.point, QueryBounds(j, call.isPhysical))

-----------------------------------------------------------------------------
(* C15 *)

\* C15: getDisplayForRect on a directory that is not empty returns a display
\* whose bounds (physical, or logical rounded to integers) have the largest
\* area in common with the rectangle, the last such display of the array.
C15_LargestIntersectionLastOnTie ==
    (call.op = "getDisplayForRect" /\ N >= 1) =>
        /\ call.result \in 1..N
        /\ \A j \in 1..N :
              CommonArea(QueryBounds(j, call.isPhysical), call.rect)
                 <= CommonArea(QueryBounds(call.result, call.isPhysical), call.rect)
        /\ \A j \in (call.result + 1)..N :
              CommonArea(QueryBounds(j, call.isPhysical), call.rect)
                 < CommonArea(QueryBounds(call.result, call.isPhysical), call.rect)

\* Two displays side by side have the same positive area in common with a
\* rectangle that straddles their common edge.
C15_Witness ==
    /\ call.op = "getDisplayForRect"
    /\ NonOverlapping /\ Connected(TRUE)
    /\ CommonArea(QueryBounds(call.result, call.isPhysical), call.rect) > 0
    /\ \E i \in 1..(call.result - 1) :
          CommonArea(QueryBounds(i, call.isPhysical), call.rect)
             = CommonArea(QueryBounds(call.result, call.isPhysical), call.rect)

-----------------------------------------------------------------------------
(* C17 *)

\* The pointer the null-aware lookup corresponding to the deprecated call
\* returns for the same arguments.
NullAwareResult ==
    CASE call.op = "getDisplayContaining" -> getDisplayForPoint(displays, call.point, FALSE)
      [] call.op = "findDisplayForPoint"  -> getDisplayForPoint(displays, call.point, call.isPhysical)
      [] call.op = "findDisplayForRect"   -> getDisplayForRect(displays, call.rect, call.isPhysical)
      [] call.op = "getMainDisplay"       -> getPrimaryDisplay(displays)

DeprecatedOps ==
    {"getDisplayContaining", "findDisplayForPoint", "findDisplayForRect", "getMainDisplay"}

\* C17: every deprecated lookup returns a reference to a valid record in every
\* directory state, the empty directory included: the record the corresponding
\* null-aware lookup finds when it finds one, emptyDisplay otherwise.  (Which
\* record is stated for the three lookups that call their null-aware
\* counterpart; of getDisplayContaining only that the record is valid.)
C17_DeprecatedLookupsValid ==
    call.op \in DeprecatedOps =>
        /\ \/ call.result.to = "emptyDisplay"
           \/ (call.result.to = "displays" /\ call.result.index \in 1..N)
        /\ call.op # "getDisplayContaining" =>
              IF NullAwareResult # nullptr
              THEN call.result = [to |-> "displays", index |-> NullAwareResult]
              ELSE call.result = [to |-> "emptyDisplay"]

-----------------------------------------------------------------------------
(* C18 *)

\* C18: getPrimaryDisplay returns the first record of the array with isMain
\* set, and null when no record has it set.
C18_FirstMainOrNull ==
    call.op = "getPrimaryDisplay" =>
        IF \E i \in 1..N : displays[i].isMain
        THEN /\ call.result \in 1..N
             /\ displays[call.result].isMain
             /\ \A j \in 1..(call.result - 1) : ~ displays[j].isMain
        ELSE call.result = nullptr

\* Two records are flagged, neither of them the first of the array.
C18_Witness ==
    /\ call.op = "getPrimaryDisplay"
    /\ NonOverlapping
    /\ call.result > 1
    /\ \E j \in (call.result + 1)..N : displays[j].isMain

-----------------------------------------------------------------------------
(* Vocabulary of the properties about the conversions                      *)

\* The call converted back the result of logicalToPhysical (p, d) with the
\* same display d; RoundTripPoint is p.
IsRoundTrip == call.op = "physicalToLogical" /\ call.shape = "point" /\ call.origin # <<>>
RoundTripPoint == call.origin[1]

-----------------------------------------------------------------------------
(* C12 *)

\* C12: for every point p and every display d, converting p from logical to
\* physical pixels and the result back to logical pixels, both with d, gives
\* p again: physicalToLogical (logicalToPhysical (p, d), d) = p, for the int
\* and for the float overload.
C12_RoundTripIsIdentity ==
    IsRoundTrip => call.result = RoundTripPoint

-----------------------------------------------------------------------------
(* C16 *)

IsConversion == call.op \in {"physicalToLogical", "logicalToPhysical"}

\* A value of the call's ValueType in fixed point.
InUnits(v) == IF call.type = "int" THEN Px(v) ELSE v

Abs(n) == IF n >= 0 THEN n ELSE - n

\* to is the value the formula gives for from, the formula being
\* (from - physical origin) / scale + logical origin for physicalToLogical and
\* (from - logical origin) * scale + physical origin for logicalToPhysical,
\* with the origins po and lo and the scale of display d: exactly for a
\* floating-point value, and to the nearest whole pixel for a value in whole
\* pixels.  All numbers are in fixed point and the equations are multiplied
\* out.
AgreesWithFormula(from, to, po, lo, d) ==
    LET slack == IF call.type = "int" THEN 1 ELSE 0
    IN  IF call.op = "physicalToLogical"
        THEN 2 * Abs((to - lo) * d.scale - (from - Px(po)) * Den) <= slack * Den * d.scale
        ELSE 2 * Abs((to - Px(po)) * Den - (from - lo) * d.scale) <= slack * Den * Den

\* The same for a width or a height, which no origin moves.
SizeAgreesWithFormula(from, to, d) == AgreesWithFormula(from, to, 0, 0, d)

C16_PassThroughWithoutDisplays ==
    IsConversion /\ displays = <<>> /\ call.display = <<>> => call.result = call.input

C16_ExplicitDisplayFormula ==
    IsConversion /\ call.display # <<>> =>
        LET d   == call.display[1]
            in  == call.input
            out == call.result
        IN  /\ AgreesWithFormula(InUnits(in.x), InUnits(out.x),
                                 d.physicalBounds.x, d.logicalBounds.x, d)
            /\ AgreesWithFormula(InUnits(in.y), InUnits(out.y),
                                 d.physicalBounds.y, d.logicalBounds.y, d)
            /\ call.shape = "rect" =>
                  /\ SizeAgreesWithFormula(InUnits(in.w), InUnits(out.w), d)
                  /\ SizeAgreesWithFormula(InUnits(in.h), InUnits(out.h), d)

\* C16: when the directory holds no display and no display is given, each of
\* physicalToLogical and logicalToPhysical, on points and on rectangles,
\* returns its input unchanged; when a display is given, the result is
\* (input - physical origin) / scale + logical origin of that display, or the
\* inverse for logicalToPhysical, whichever display a lookup would have found.
C16_PassThroughOrExplicitDisplay ==
    C16_PassThroughWithoutDisplays /\ C16_ExplicitDisplayFormula

-----------------------------------------------------------------------------
(* Vocabulary of the properties about JSONUtils                            *)

\* The vars v1 of heap h1 and v2 of heap h2 hold the same JSON value: the
\* same scalar, or containers of the same kind with the same names and the
\* same values in the same order.
RECURSIVE SameJson(_, _, _, _)
SameJson(h1, v1, h2, v2) ==
    IF v1.t = "ref" /\ v2.t = "ref"
    THEN LET c1 == h1[v1.n]
             c2 == h2[v2.n]
         IN  /\ c1.kind = c2.kind
             /\ c1.names = c2.names
             /\ Len(c1.values) = Len(c2.values)
             /\ \A k \in 1..Len(c1.values) : SameJson(h1, c1.values[k], h2, c2.values[k])
    ELSE v1.t # "ref" /\ v2.t # "ref" /\ v1 = v2

\* The key a reference token stands for, read from the left: ~0 is a tilde,
\* ~1 is a slash, any other character is itself.  Replacing every ~1 and then
\* every ~0 gives the same string; replacing in the other order does not
\* (~01 would become a slash).
RECURSIVE Unescaped(_)
Unescaped(token) ==
    IF token = <<>> THEN <<>>
    ELSE IF Len(token) >= 2 /\ token[1] = "~" /\ token[2] = "0"
         THEN <<"~">> \o Unescaped(SubSeq(token, 3, Len(token)))
    ELSE IF Len(token) >= 2 /\ token[1] = "~" /\ token[2] = "1"
         THEN <<"/">> \o Unescaped(SubSeq(token, 3, Len(token)))
    ELSE << token[1] >> \o Unescaped(Tail(token))

\* The last call was made on a document that is an object, with a pointer of
\* one reference token; OneToken is that token.
OneTokenOnObject ==
    /\ call.op \in {"getPointer", "setPointer"}
    /\ document.t = "ref"
    /\ heap[document.n].kind = "object"
    /\ call.pointer # <<>>
    /\ call.pointer[1] = "/"
    /\ \A k \in 2..Len(call.pointer) : call.pointer[k] # "/"
OneToken == Tail(call.pointer)

HasKey(cell, key) == \E k \in 1..Len(cell.names) : cell.names[k] = key
PositionOfKey(cell, key) == CHOOSE k \in 1..Len(cell.names) : cell.names[k] = key

-----------------------------------------------------------------------------
(* C19 *)

\* C19: a reference token addresses the key obtained by replacing every ~1
\* with a slash and then every ~0 with a tilde (so ~01 is the key ~1, not a
\* slash), in getPointer and in setPointer alike: on an object, getPointer
\* with one token returns the value of that key, or nothing when the object
\* has no such key, and setPointer returns an object in which that key has
\* the new value and every other key the value it had.
C19_TokensAreUnescaped ==
    OneTokenOnObject =>
        LET key == Unescaped(OneToken)
            obj == heap[document.n]
        IN  IF call.op = "getPointer"
            THEN IF HasKey(obj, key)
                 THEN call.result = << obj.values[PositionOfKey(obj, key)] >>
                 ELSE call.result = <<>>
            ELSE /\ call.result # <<>>
                 /\ call.result[1].t = "ref"
                 /\ LET out == heap[call.result[1].n]
                    IN  /\ out.kind = "object"
                        /\ HasKey(out, key)
                        /\ out.values[PositionOfKey(out, key)] = call.newValue
                        /\ \A k \in 1..Len(out.names) :
                              out.names[k] # key => HasKey(obj, out.names[k])
                        /\ \A k \in 1..Len(obj.names) :
                              obj.names[k] # key =>
                                 /\ HasKey(out, obj.names[k])
                                 /\ SameJson(heap, obj.values[k], heap,
                                             out.values[PositionOfKey(out, obj.names[k])])

\* setPointer with the token ~01 on an object that has the keys ~1 and /: the
\* key ~1 has the new value and the key / has kept its own.
C19_Witness ==
    /\ OneTokenOnObject
    /\ call.op = "setPointer"
    /\ OneToken = <<"~", "0", "1">>
    /\ HasKey(heap[document.n], <<"~", "1">>)
    /\ HasKey(heap[document.n], <<"/">>)
    /\ call.result # <<>>
    /\ LET out == heap[call.result[1].n]
       IN  /\ out.values[PositionOfKey(out, <<"~", "1">>)] = call.newValue
           /\ out.values[PositionOfKey(out, <<"/">>)] # call.newValue

-----------------------------------------------------------------------------
(* C20 *)

\* C20: setPointer leaves the document passed to it as it was, whether it
\* returns a value or nothing: the document holds the same JSON value after
\* the call as before, so a later getPointer or setPointer on it sees the
\* original values.
C20_SetPointerKeepsDocument ==
    [][call'.op = "setPointer" => SameJson(heap, document, heap', document')]_vars

\* setPointer has returned a value that differs from the document, set
\* through a pointer of two tokens, in cells that are not the document's.
C20_Witness ==
    /\ call.op = "setPointer"
    /\ call.result # <<>>
    /\ \E k \in 2..Len(call.pointer) : call.pointer[k] = "/"
    /\ document.t = "ref"
    /\ call.result[1].t = "ref"
    /\ call.result[1].n > ownCells(heap, document)
    /\ ~ SameJson(heap, call.result[1], heap, document)

-----------------------------------------------------------------------------
(* Vocabulary of the properties about resolving a pointer                  *)

\* The reference tokens of a pointer that starts with a slash, still escaped.
RECURSIVE TokensOf(_)
TokensOf(pointer) ==
    IF pointer = <<>> THEN <<>>
    ELSE LET rest == Tail(pointer)
             stop == IF \E k \in 1..Len(rest) : rest[k] = "/"
                     THEN CHOOSE k \in 1..Len(rest) :
                             rest[k] = "/" /\ \A m \in 1..(k - 1) : rest[m] # "/"
                     ELSE Len(rest) + 1
         IN  << SubSeq(rest, 1, stop - 1) >> \o TokensOf(SubSeq(rest, stop, Len(rest)))

IsDigit(c) == c \in {"0", "1", "2", "3", "4", "5", "6", "7", "8", "9"}
AllDigits(token) == token # <<>> /\ \A k \in 1..Len(token) : IsDigit(token[k])

\* A number written without a leading zero, and a number written with one.
IsIndexToken(token) == AllDigits(token) /\ (token[1] = "0" => Len(token) = 1)
HasLeadingZero(token) == AllDigits(token) /\ token[1] = "0" /\ Len(token) >= 2

DigitValue(c) ==
    CASE c = "0" -> 0 [] c = "1" -> 1 [] c = "2" -> 2 [] c = "3" -> 3 [] c = "4" -> 4
      [] c = "5" -> 5 [] c = "6" -> 6 [] c = "7" -> 7 [] c = "8" -> 8 [] c = "9" -> 9

RECURSIVE Decimal(_)
Decimal(token) ==
    IF Len(token) = 1 THEN DigitValue(token[1])
    ELSE 10 * Decimal(SubSeq(token, 1, Len(token) - 1)) + DigitValue(token[Len(token)])

IsScalar(v)       == v.t # "ref"
IsObjectIn(h, v)  == v.t = "ref" /\ h[v.n].kind = "object"
IsArrayIn(h, v)   == v.t = "ref" /\ h[v.n].kind = "array"
SizeIn(h, v)      == Len(h[v.n].values)

\* The member of v that a token addresses among the members v has: << m >>,
\* or <<>> when v has no such member.
MemberIn(h, v, token) ==
    IF IsObjectIn(h, v)
    THEN IF HasKey(h[v.n], Unescaped(token))
         THEN << h[v.n].values[PositionOfKey(h[v.n], Unescaped(token))] >>
         ELSE <<>>
    ELSE IF IsArrayIn(h, v) /\ IsIndexToken(token) /\ Decimal(token) < SizeIn(h, v)
         THEN << h[v.n].values[Decimal(token) + 1] >>
         ELSE <<>>

\* The value that the tokens lead to from v through members that exist.
RECURSIVE ResolveIn(_, _, _)
ResolveIn(h, v, tokens) ==
    IF tokens = <<>> THEN << v >>
    ELSE LET m == MemberIn(h, v, tokens[1])
         IN  IF m = <<>> THEN <<>> ELSE ResolveIn(h, m[1], Tail(tokens))

\* The last call had a pointer of one token or more that starts with a slash.
\* LastToken is its last token and Parent the value that the tokens before it
\* lead to in the document (<<>> when they lead nowhere).
HasTokens ==
    /\ call.op \in {"getPointer", "setPointer"}
    /\ call.pointer # <<>>
    /\ call.pointer[1] = "/"
CallTokens  == TokensOf(call.pointer)
ParentPath  == SubSeq(CallTokens, 1, Len(CallTokens) - 1)
LastToken   == CallTokens[Len(CallTokens)]
Parent      == ResolveIn(heap, document, ParentPath)

-----------------------------------------------------------------------------
(* C21 *)

\* C21: setPointer returns nothing when a token steps into a value that is
\* neither an object nor an array (a scalar of the document, or the void
\* value of a key that the pointer itself has just named), when the token
\* for an array is a number with a leading zero, and when it is a number
\* greater than the size of the array; a token with a leading zero is
\* accepted as the key of an object, and that key then holds the new value.
C21_UnresolvableGivesNothing ==
    HasTokens /\ call.op = "setPointer" =>
        /\ Parent # <<>> /\ IsScalar(Parent[1]) => call.result = <<>>
        /\ ( /\ Len(CallTokens) = 2
             /\ IsObjectIn(heap, document)
             /\ ~ HasKey(heap[document.n], Unescaped(CallTokens[1])) )
              => call.result = <<>>
        /\ Parent # <<>> /\ IsArrayIn(heap, Parent[1]) /\ HasLeadingZero(LastToken)
              => call.result = <<>>
        /\ ( /\ Parent # <<>>
             /\ IsArrayIn(heap, Parent[1])
             /\ IsIndexToken(LastToken)
             /\ Decimal(LastToken) > SizeIn(heap, Parent[1]) )
              => call.result = <<>>
        /\ Parent # <<>> /\ IsObjectIn(heap, Parent[1]) /\ HasLeadingZero(LastToken)
              => /\ call.result # <<>>
                 /\ ResolveIn(heap, call.result[1], CallTokens) = << call.newValue >>

\* setPointer with the token 01 for an array inside the document has
\* returned nothing.
C21_Witness ==
    /\ HasTokens
    /\ call.op = "setPointer"
    /\ Len(CallTokens) = 2
    /\ Parent # <<>>
    /\ IsArrayIn(heap, Parent[1])
    /\ LastToken = <<"0", "1">>
    /\ call.result = <<>>

-----------------------------------------------------------------------------
(* C22 *)

\* The container that the tokens before the last lead to in the value that
\* setPointer returned.
ParentInResult == ResolveIn(heap, call.result[1], ParentPath)

\* C22: setPointer with the token - for an array, or with the number that is
\* the array's size, returns a value in which that array has the new value
\* as one more, last element and its other elements as they were; setPointer
\* with a key that an object does not have returns a value in which that
\* object has the key, with the new value, after its other properties, which
\* are as they were.
C22_AppendsToArrayAndObject ==
    HasTokens /\ call.op = "setPointer" /\ Parent # <<>> =>
        /\ ( /\ IsArrayIn(heap, Parent[1])
             /\ \/ LastToken = <<"-">>
                \/ IsIndexToken(LastToken) /\ Decimal(LastToken) = SizeIn(heap, Parent[1]) )
              => /\ call.result # <<>>
                 /\ ParentInResult # <<>>
                 /\ IsArrayIn(heap, ParentInResult[1])
                 /\ LET old == heap[Parent[1].n].values
                        out == heap[ParentInResult[1].n].values
                    IN  /\ Len(out) = Len(old) + 1
                        /\ out[Len(out)] = call.newValue
                        /\ \A k \in 1..Len(old) : SameJson(heap, old[k], heap, out[k])
        /\ ( /\ IsObjectIn(heap, Parent[1])
             /\ ~ HasKey(heap[Parent[1].n], Unescaped(LastToken)) )
              => /\ call.result # <<>>
                 /\ ParentInResult # <<>>
                 /\ IsObjectIn(heap, ParentInResult[1])
                 /\ LET old == heap[Parent[1].n]
                        out == heap[ParentInResult[1].n]
                    IN  /\ out.names = Append(old.names, Unescaped(LastToken))
                        /\ out.values[Len(out.values)] = call.newValue
                        /\ \A k \in 1..Len(old.values) :
                              SameJson(heap, old.values[k], heap, out.values[k])

\* setPointer with the token - has added a third element to an array of two
\* inside the document.
C22_Witness ==
    /\ HasTokens
    /\ call.op = "setPointer"
    /\ Len(CallTokens) = 2
    /\ LastToken = <<"-">>
    /\ Parent # <<>>
    /\ IsArrayIn(heap, Parent[1])
    /\ SizeIn(heap, Parent[1]) = 2
    /\ call.result # <<>>
    /\ SizeIn(heap, ParentInResult[1]) = 3
    /\ heap[ParentInResult[1].n].values[3] = call.newValue

-----------------------------------------------------------------------------
(* C23 *)

-----------------------------------------------------------------------------
(* C24 *)

\* Node i was linked as the child of another node.
LinkedAsChild(i) ==
    /\ displayNodes[i].parent # nullptr
    /\ displayNodes[i].parent # i
    /\ ~ displayNodes[i].isRoot

\* C24: a node linked as a child meets its parent's raw rectangle on one of
\* the four sides, and no step of the traversal, that is no call of
\* processDisplay, raises the assertion of the "none match" branch.
C24_ChildAlwaysMatchesASide ==
    /\ [](\A i \in 1..Len(displayNodes) :
            LinkedAsChild(i) =>
                FirstSide(raw(i), raw(displayNodes[i].parent)) # "none")
    /\ [][ pc = "traverse" => jassertFailed' = jassertFailed ]_vars

\* A child of a child has been placed, and a child was placed whose rectangle
\* meets its parent's only on the line of an edge, without sharing a stretch
\* of it.
C24_Witness ==
    /\ pc = "done"
    /\ \E i \in 1..Len(displayNodes) :
          /\ LinkedAsChild(i) /\ invoked[i] > 0
          /\ displayNodes[i].parent # root
    /\ \E i \in 1..Len(displayNodes) :
          /\ LinkedAsChild(i) /\ invoked[i] > 0
          /\ \A k \in 1..4 : ~ SharesEdge(raw(i), raw(displayNodes[i].parent), Sides[k])

-----------------------------------------------------------------------------
(* C25 *)

\* Node i was never reached by the traversal from the root.
Island(i) == displayNodes[i].parent = nullptr

\* C25: the node of a display that is not reachable from the root keeps a
\* null parent for the whole pass, and the final loop commits nothing for it:
\* its record keeps the logicalBounds and userBounds it was enumerated with.
C25_IslandNotCommitted ==
    (pc \in {"commit", "done"} /\ N > 1) =>
        \A i \in 1..Len(displayNodes) :
            Island(i) => /\ logical(i) = raw(i)
                         /\ user(i) = rawUser(i)

\* The part of C25 that holds: a display that no chain of touching displays
\* links to the root ends the pass with a null parent.
C25_IslandKeepsNullParent ==
    (pc \in {"commit", "done"} /\ N > 1) =>
        \A i \in 1..Len(displayNodes) :
            i \notin ReachableFrom({root}, FALSE) => Island(i) /\ invoked[i] = 0

-----------------------------------------------------------------------------
(* C26 *)

\* C26: getDisplayForRect and getDisplayForPoint return nullptr exactly when
\* the directory is empty; with one display or more they return one of the
\* displays, whatever the rectangle or the point.
C26_NullOnlyWhenEmpty ==
    call.op \in {"getDisplayForRect", "getDisplayForPoint"} =>
        /\ (call.result = nullptr) <=> (N = 0)
        /\ N > 0 => call.result \in 1..N

\* The rectangle of the call has nothing in common with any display.
MissesEveryDisplay ==
    /\ call.op = "getDisplayForRect"
    /\ N > 0
    /\ \A j \in 1..N : CommonArea(QueryBounds(j, call.isPhysical), call.rect) = 0

\* The point of the call lies outside every display, at a distance from the
\* one returned.
OutsideEveryDisplay ==
    /\ call.op = "getDisplayForPoint"
    /\ N > 0
    /\ \A j \in 1..N :
          LET b == QueryBounds(j, call.isPhysical)
          IN  \/ call.point.x < b.x - 1 \/ call.point.x > b.x + b.w
              \/ call.point.y < b.y - 1 \/ call.point.y > b.y + b.h

C26_Witness == MissesEveryDisplay \/ OutsideEveryDisplay

-----------------------------------------------------------------------------
(* C27 *)

\* Node i took, or will take, the root branch of processDisplay.
TreatedAsRoot(i) == displayNodes[i].isRoot

\* C27: in a pass over several displays exactly one node, the one the
\* traversal starts from, is flagged isRoot and takes the root branch; every
\* other node that was processed has a parent other than itself.
C27_ExactlyOneRoot ==
    (pc \in {"traverse", "commit", "done"} /\ N > 1) =>
        /\ \A i \in 1..Len(displayNodes) : TreatedAsRoot(i) <=> i = root
        /\ \A i \in 1..Len(displayNodes) :
              (invoked[i] > 0 /\ i # root) => displayNodes[i].parent \notin {nullptr, i}

\* The part of C27 that holds: when at most one display reports the raw
\* top-left (0,0), one node is the root and the others are placed relative to
\* another node.
C27_OneRootWithoutDuplicateOrigin ==
    ( /\ pc \in {"traverse", "commit", "done"} /\ N > 1
      /\ \A i, j \in 1..N : (raw(i).x = 0 /\ raw(i).y = 0 /\ raw(j).x = 0 /\ raw(j).y = 0) => i = j ) =>
        /\ \A i \in 1..Len(displayNodes) : TreatedAsRoot(i) <=> i = root
        /\ \A i \in 1..Len(displayNodes) :
              (invoked[i] > 0 /\ i # root) => displayNodes[i].parent \notin {nullptr, i}

-----------------------------------------------------------------------------
(* Vocabulary of the properties of DropShadower                            *)

\* The number of windows the DropShadower holds.
WindowCount == Len(shadowWindows)

\* The owner is one that gets shadows: it exists, is showing and has a
\* positive size, shadows can be shown (semi-transparent windows are usable or
\* the owner sits in a parent), and the virtual-desktop watcher, if any, does
\* not ask to hide them.
OwnerGetsShadows ==
    /\ owner = Owner
    /\ desktop.isShowing
    /\ desktop.width >= 1 /\ desktop.height >= 1
    /\ ~ (~ desktop.canUseSemiTransparentWindows /\ ~ desktop.hasParent)
    /\ ~ (virtualDesktopWatcher /\ desktop.shouldHideDropShadow)

\* No call of updateShadows or of the destructor is in progress.
NoCallInProgress == activeCalls = <<>>

\* This step is the return of a call of updateShadows that went through one of
\* its two branches to the end.
CallCompletes ==
    /\ activeCalls # <<>>
    /\ activeCalls[Len(activeCalls)].fn = "updateShadows"
    /\ activeCalls' = <<>>
    /\ lifetime' = "alive"

\* This step is the arrival of a call of updateShadows.
CallArrives == arrivals' # arrivals

-----------------------------------------------------------------------------
(* C28 *)

\* C28: a call of updateShadows that runs to its end leaves 4 windows when the
\* owner is one that gets shadows and none otherwise, and between calls the
\* DropShadower never holds another number of windows than 0 or 4.
C28_FourWindowsOrNone ==
    /\ [][ CallCompletes =>
              WindowCount' = IF OwnerGetsShadows' THEN 4 ELSE 0 ]_vars
    /\ [](NoCallInProgress => WindowCount \in {0, 4})

\* A call has given an owner that sits in a parent, on a platform without
\* semi-transparent windows, its four windows, each with its bounds and its
\* place in the stacking order.
C28_Witness ==
    /\ NoCallInProgress
    /\ lifetime = "alive"
    /\ OwnerGetsShadows
    /\ ~ desktop.canUseSemiTransparentWindows
    /\ WindowCount = 4
    /\ \A k \in 1..4 : shadowWindows[k].bounds = k - 1 /\ shadowWindows[k].behind = k

-----------------------------------------------------------------------------
(* C29 *)

\* C29: a call of updateShadows that arrives while a call of updateShadows or
\* the destructor is in progress changes neither the windows nor the calls in
\* progress nor the flag, and whenever no call is in progress the flag
\* reentrant is false.
C29_ReentrantCallIgnoredFlagRestored ==
    /\ [][ (~ NoCallInProgress /\ CallArrives) =>
              UNCHANGED <<shadowWindows, activeCalls, reentrant>> ]_vars
    /\ [](NoCallInProgress => ~ reentrant)

\* The part of C29 that holds: the call that arrives during another changes
\* nothing.
C29_ReentrantCallIgnored ==
    [][ (~ NoCallInProgress /\ CallArrives) =>
          UNCHANGED <<shadowWindows, activeCalls, reentrant>> ]_vars

\* The part of C29 that holds: the flag is false between the calls on a
\* DropShadower that no call has outlived.
C29_FlagRestoredUnlessDeleted ==
    (NoCallInProgress /\ lifetime # "useAfterFree") => ~ reentrant

-----------------------------------------------------------------------------
(* C30 *)

\* The root of the listener and all its parents.
RECURSIVE Upwards(_)
Upwards(S) ==
    LET T == S \cup ({ parentComponent[c] : c \in S } \ {nullptr})
    IN  IF T = S THEN S ELSE Upwards(T)

AncestorsOfRoot == Upwards({listenerRoot})

\* This step ran updateParentHierarchy.
HierarchyUpdated == lastUpdate'.count # lastUpdate.count

\* C30: while the listener exists it is registered on exactly the root and
\* its parents; an update of the hierarchy calls addComponentListener on
\* exactly the components that joined the chain and removeComponentListener
\* on exactly those that left it, so not on one that stayed; once the listener
\* is destroyed it is registered on no live component.
C30_RegisteredOnAncestorChain ==
    /\ [](listenerState = "constructed" => componentListeners = AncestorsOfRoot)
    /\ [](listenerState = "destroyed" => componentListeners \cap liveComponents = {})
    /\ [][ HierarchyUpdated =>
              /\ lastUpdate'.added = AncestorsOfRoot' \ componentListeners
              /\ lastUpdate'.removed = componentListeners \ AncestorsOfRoot' ]_vars

\* The root has a parent that stayed while a parent further up left the
\* chain.
C30_Witness ==
    /\ listenerState = "constructed"
    /\ Cardinality(AncestorsOfRoot) >= 2
    /\ lastUpdate.removed # {}
    /\ lastUpdate.removed \cap liveComponents # {}

=============================================================================
